---- MODULE Spec2Model ----
(***************************************************************************)
(* Turn engine of the grid roguelike in src/src/main.rs: Game::new,        *)
(* Game::update and the functions it calls (update_player,                 *)
(* update_monsters, resolve_traps, generate_map, generate_entities).       *)
(*                                                                         *)
(* Positions are pairs <<x, y>> of integers (quicksilver Vector with       *)
(* integral f32 components).  Rust vectors are 0-based, TLA+ sequences are *)
(* 1-based: store index i of the source is i + 1 here, so the player       *)
(* (player_id = 0 in the source) is entities[1].                           *)
(***************************************************************************)
EXTENDS Integers, Sequences, FiniteSets, TLC

VARIABLES game_state, map, entities, fault, last

vars == <<game_state, map, entities, fault, last>>

(***************************************************************************)
(* Program constants.                                                      *)
(***************************************************************************)
NUM_LEVEL_GAME == 4
MAP_WIDTH == 10
MAP_HEIGHT == 10
\* number of wall segments generate_map places (while walls_placed < 5)
NUM_WALL_SEGMENTS == 5
\* hit points of the player built by Game::new
PLAYER_HP == 5
\* hit points lost on a Kill trap and on a CountDown(0) trap
TRAP_DAMAGE == 5

Grid == (0 .. MAP_WIDTH - 1) \X (0 .. MAP_HEIGHT - 1)

Abs(v) == IF v < 0 THEN -v ELSE v

\* f32::signum: 1.0 for positive numbers and for +0.0, -1.0 for negative ones.
\* The operands here are differences and absolute values of integral
\* coordinates, so a zero is always +0.0.
signum(v) == IF v >= 0 THEN 1 ELSE -1

VAdd(p, q) == <<p[1] + q[1], p[2] + q[2]>>
VSub(p, q) == <<p[1] - q[1], p[2] - q[2]>>

clamp(min, max, value) ==
    IF value < min THEN min ELSE IF value > max THEN max ELSE value

(***************************************************************************)
(* Entity kinds (enum EntityType and its payloads), one record shape.      *)
(***************************************************************************)
TrapKinds == {"Berserk", "Kill", "Bump", "Teleport", "CountDown",
              "ArrowLeft", "ArrowRight", "ArrowUp", "ArrowDown",
              "NextLevel", "Win"}

PlayerTyp(hp) ==
    [k |-> "Player", hp |-> hp, max_hp |-> hp, status |-> "None",
     mtyp |-> "-", trap |-> "-", n |-> 0]

\* EntityType::monster
MonsterTyp(max_hp, mtyp) ==
    [k |-> "Monster", hp |-> max_hp, max_hp |-> max_hp, status |-> "None",
     mtyp |-> mtyp, trap |-> "-", n |-> 0]

\* EntityType::trap; n is the counter of Trap::CountDown(n)
TrapTyp(trap, n) ==
    [k |-> "Trap", hp |-> 0, max_hp |-> 0, status |-> "None",
     mtyp |-> "-", trap |-> trap, n |-> n]

is_monster(typ) == typ.k = "Monster"
is_player(typ) == typ.k = "Player"
is_trap(typ) == typ.k = "Trap"
is_rook(typ) == typ.k = "Monster" /\ typ.mtyp = "Rook"

\* a lose_hp that adds the amount
lose_hp_adding(typ, amount) == [typ EXCEPT !.hp = typ.hp + amount]

\* EntityType::lose_hp on a player or a monster (on a trap it panics: the
\* callers below record that as a fault before calling it)
lose_hp(typ, amount) == [typ EXCEPT !.hp = typ.hp - amount]

TrapGlyph(trap, n) ==
    CASE trap = "Kill" -> 147
      [] trap = "Berserk" -> 42
      [] trap = "Bump" -> 42
      [] trap = "Teleport" -> 33
      [] trap = "CountDown" -> 48 + n
      [] trap = "ArrowLeft" -> 17
      [] trap = "ArrowRight" -> 16
      [] trap = "ArrowUp" -> 18
      [] trap = "ArrowDown" -> 19
      [] trap = "NextLevel" -> 3
      [] trap = "Win" -> 255

\* enum AnimState, one record shape
AnimNone == [s |-> "None", frame |-> 0, dir |-> "-"]
Idle(frame) == [s |-> "Idle", frame |-> frame, dir |-> "-"]
Attacking(frame, dir) == [s |-> "Attacking", frame |-> frame, dir |-> dir]

\* Entity::trap
EntityTrap(pos, trap, n) ==
    [last_pos |-> pos, pos |-> pos, glyph |-> TrapGlyph(trap, n),
     typ |-> TrapTyp(trap, n),
     anim_state |-> IF trap \in {"ArrowLeft", "ArrowRight", "ArrowUp",
                                 "ArrowDown", "NextLevel", "Berserk",
                                 "CountDown"}
                    THEN AnimNone ELSE Idle(0)]

\* Entity::gol
EntityGol(pos) ==
    [last_pos |-> pos, pos |-> pos, glyph |-> 152,
     typ |-> MonsterTyp(1, "Gol"), anim_state |-> Idle(0)]

\* Entity::rook
EntityRook(pos) ==
    [last_pos |-> pos, pos |-> pos, glyph |-> 130,
     typ |-> MonsterTyp(2, "Rook"), anim_state |-> Idle(0)]

(***************************************************************************)
(* Occupancy queries.  The Option<Entity> results are given as the index   *)
(* of the entity found (the first in store order), 0 for None.             *)
(***************************************************************************)
\* map.iter().any(|tile| tile.blocks && tile.pos == pos): the map holds one
\* tile per position of the grid, and no tile off the grid
blocked_tile(pos, m) == pos \in Grid /\ m[pos]

\* Iterator::find, Iterator::position: the first of the indices hits
FirstIndex(hits) ==
    IF hits = {} THEN 0 ELSE CHOOSE i \in hits : \A j \in hits : i <= j

occupied_tile(pos, ents) ==
    FirstIndex({i \in 1 .. Len(ents) : ents[i].pos = pos})

trap_tile(pos, ents) ==
    FirstIndex({i \in 1 .. Len(ents) :
                   is_trap(ents[i].typ) /\ ents[i].pos = pos})

\* the indices of a set, ascending, as a sequence (iteration in store order)
Ascending(S) ==
    [k \in 1 .. Cardinality(S) |->
        CHOOSE i \in S : Cardinality({j \in S : j < i}) = k - 1]

\* Vec::swap_remove(i): the last element takes the place of the removed one
swap_remove(ents, i) ==
    IF i = Len(ents) THEN SubSeq(ents, 1, Len(ents) - 1)
    ELSE [SubSeq(ents, 1, Len(ents) - 1) EXCEPT ![i] = ents[Len(ents)]]

\* attack direction from the attempted movement vector
direction(dir) ==
    IF dir[1] > 0 /\ dir[2] = 0 THEN "Right"
    ELSE IF dir[1] = 0 /\ dir[2] < 0 THEN "Up"
    ELSE IF dir[1] < 0 THEN "Left"
    ELSE "Down"

\* attempt_move without the test of the destination tile
attempt_move_unchecked(pos, offset, m) == VAdd(pos, offset)

\* attempt_move with the offset applied twice
attempt_move_twice(pos, offset, m) ==
    IF blocked_tile(VAdd(pos, VAdd(offset, offset)), m) THEN pos
    ELSE VAdd(pos, VAdd(offset, offset))

attempt_move(pos, offset, m) ==
    LET new_pos == VAdd(pos, offset)
    IN  IF blocked_tile(new_pos, m) THEN pos ELSE new_pos

(***************************************************************************)
(* Level generation.  The random draws of generate_map are the plan: one   *)
(* record [x, y, x_dir, y_dir, dist] per accepted wall segment.  The draws *)
(* of map_unique_pos are the sequence of positions it yields.              *)
(***************************************************************************)
ValidSegment(s) ==
    /\ s.x \in 2 .. MAP_WIDTH - 1
    /\ s.y \in 2 .. MAP_HEIGHT - 1
    /\ s.x_dir \in -1 .. 1
    /\ s.y_dir \in -1 .. 1
    /\ s.dist \in 1 .. 4
    /\ Abs(s.x_dir) # Abs(s.y_dir)

\* t is a tile one segment turns into a wall: the walk is straight and stops
\* placing once it has left the grid; the optional step back lands on a
\* tile the walk has already walled
SegmentTiles(t, s) ==
    \E i \in 0 .. s.dist - 1 : t = <<s.x + i * s.x_dir, s.y + i * s.y_dir>>

ValidPlan(plan) ==
    /\ Len(plan) = NUM_WALL_SEGMENTS
    /\ \A k \in 1 .. Len(plan) : ValidSegment(plan[k])

\* a generator whose segment tiles keep what Tile::wall gives them:
\* blocks = false
generate_map_open_segments(plan) ==
    [t \in Grid |->
        /\ \/ t[1] = 0 \/ t[1] = MAP_WIDTH - 1
           \/ t[2] = 0 \/ t[2] = MAP_HEIGHT - 1
        /\ ~\E k \in 1 .. Len(plan) : SegmentTiles(t, plan[k])]

generate_map(plan) ==
    [t \in Grid |->
        \/ t[1] = 0 \/ t[1] = MAP_WIDTH - 1
        \/ t[2] = 0 \/ t[2] = MAP_HEIGHT - 1
        \/ \E k \in 1 .. Len(plan) : SegmentTiles(t, plan[k])]

\* what map_unique_pos can yield: pairwise distinct positions drawn by
\* map_pos (1 .. MAP_WIDTH - 2, 1 .. MAP_HEIGHT - 2) on non-blocking tiles
map_unique_pos(positions, m) ==
    /\ \A i \in 1 .. Len(positions) :
          /\ positions[i][1] \in 1 .. MAP_WIDTH - 2
          /\ positions[i][2] \in 1 .. MAP_HEIGHT - 2
          /\ ~m[positions[i]]
    /\ \A i, j \in 1 .. Len(positions) :
          positions[i] = positions[j] => i = j

\* the entities generate_entities pushes (release branch), in order; the
\* last position drawn is the player's
generate_entities(last_level, positions) ==
    <<EntityGol(positions[1]),
      EntityRook(positions[2]),
      EntityTrap(positions[3], "Bump", 0),
      EntityTrap(positions[4], "Kill", 0),
      EntityTrap(positions[5], "Kill", 0),
      EntityTrap(positions[6], "Kill", 0),
      EntityTrap(positions[7], "Kill", 0),
      EntityTrap(positions[8], "ArrowLeft", 0),
      EntityTrap(positions[9], "ArrowRight", 0),
      EntityTrap(positions[10], "ArrowUp", 0),
      EntityTrap(positions[11], "ArrowDown", 0),
      EntityTrap(positions[12], IF last_level THEN "Win" ELSE "NextLevel", 0)>>

\* the player entity Game::new builds
NewPlayer ==
    [last_pos |-> <<5, 3>>, pos |-> <<5, 3>>, glyph |-> 139,
     typ |-> PlayerTyp(PLAYER_HP), anim_state |-> Idle(0)]

(***************************************************************************)
(* update_player: keys is the set of direction keys in state Pressed.      *)
(***************************************************************************)
Keys == {"Left", "Right", "Up", "Down"}

\* an update_player that reverts a blocked move and still reports a turn
update_player_reverted_turn(ents, keys, m) ==
    LET previous_pos == ents[1].pos
        x1 == IF "Left" \in keys
              THEN clamp(0, MAP_WIDTH, previous_pos[1] - 1) ELSE previous_pos[1]
        x2 == IF "Right" \in keys THEN clamp(0, MAP_WIDTH, x1 + 1) ELSE x1
        y1 == IF "Up" \in keys
              THEN clamp(0, MAP_HEIGHT, previous_pos[2] - 1) ELSE previous_pos[2]
        y2 == IF "Down" \in keys THEN clamp(0, MAP_HEIGHT, y1 + 1) ELSE y1
    IN  IF blocked_tile(<<x2, y2>>, m)
        THEN [entities |-> ents, took_turn |-> keys # {}]
        ELSE [entities |-> [ents EXCEPT ![1].pos = <<x2, y2>>],
              took_turn |-> keys # {}]

update_player(ents, keys, m) ==
    LET player == ents[1]
        previous_pos == player.pos
        x1 == IF "Left" \in keys
              THEN clamp(0, MAP_WIDTH, previous_pos[1] - 1) ELSE previous_pos[1]
        x2 == IF "Right" \in keys THEN clamp(0, MAP_WIDTH, x1 + 1) ELSE x1
        y1 == IF "Up" \in keys
              THEN clamp(0, MAP_HEIGHT, previous_pos[2] - 1) ELSE previous_pos[2]
        y2 == IF "Down" \in keys THEN clamp(0, MAP_HEIGHT, y1 + 1) ELSE y1
        pressed == keys # {}
    IN  IF blocked_tile(<<x2, y2>>, m)
        THEN [entities |-> ents, took_turn |-> FALSE]
        ELSE [entities |-> [ents EXCEPT ![1].pos = <<x2, y2>>],
              took_turn |-> pressed]

(***************************************************************************)
(* update_monsters.  Every monster decides against the clone of the store  *)
(* taken on entry (after the player's move) and against the cloned player. *)
(***************************************************************************)
\* pos_move before the blocked/occupied checks (lines 1349-1360)
MonsterTarget(monster, player, m) ==
    LET pos_diff == VSub(player.pos, monster.pos)
        pos_move == <<monster.pos[1]
                         + signum(Abs(pos_diff[1])) * signum(pos_diff[1]),
                      monster.pos[2]
                         + signum(Abs(pos_diff[2])) * signum(pos_diff[2])>>
    IN  IF is_rook(monster.typ) /\ Abs(pos_move[1]) = Abs(pos_move[2])
        THEN IF Abs(pos_diff[1]) > Abs(pos_diff[2]) /\ ~blocked_tile(pos_move, m)
             THEN <<pos_move[1], 0>>
             ELSE <<0, pos_move[2]>>
        ELSE pos_move

\* a loop body without the branch of line 1372: a monster moves onto the
\* tile of another monster
MonsterMoveOntoMonsters(monster, player, snapshot, m) ==
    LET prev_position == monster.pos
        pos_move == MonsterTarget(monster, player, m)
        occ == occupied_tile(pos_move, snapshot)
    IN  IF blocked_tile(pos_move, m)
        THEN [entity |-> monster, attack |-> FALSE]
        ELSE IF occ # 0 /\ is_player(snapshot[occ].typ)
        THEN [entity |-> [monster EXCEPT
                            !.anim_state =
                               Attacking(0, direction(VSub(pos_move,
                                                           prev_position)))],
              attack |-> TRUE]
        ELSE [entity |-> [monster EXCEPT !.pos = pos_move], attack |-> FALSE]

\* a loop body that also animates a monster which another monster holds
\* in place
MonsterMoveAnimatesHeld(monster, player, snapshot, m) ==
    LET prev_position == monster.pos
        pos_move == MonsterTarget(monster, player, m)
        occ == occupied_tile(pos_move, snapshot)
    IN  IF blocked_tile(pos_move, m)
        THEN [entity |-> monster, attack |-> FALSE]
        ELSE IF occ # 0 /\ is_player(snapshot[occ].typ)
        THEN [entity |-> [monster EXCEPT
                            !.anim_state =
                               Attacking(0, direction(VSub(pos_move,
                                                           prev_position)))],
              attack |-> TRUE]
        ELSE IF occ # 0 /\ is_monster(snapshot[occ].typ)
        THEN [entity |-> [monster EXCEPT
                            !.anim_state =
                               Attacking(0, direction(VSub(pos_move,
                                                           prev_position)))],
              attack |-> FALSE]
        ELSE [entity |-> [monster EXCEPT !.pos = pos_move], attack |-> FALSE]

\* one iteration of the loop over the monsters (lines 1362-1378): the
\* monster after its move, and whether it pushed an attack
MonsterMove(monster, player, snapshot, m) ==
    LET prev_position == monster.pos
        pos_move == MonsterTarget(monster, player, m)
        occ == occupied_tile(pos_move, snapshot)
    IN  IF blocked_tile(pos_move, m)
        THEN [entity |-> monster, attack |-> FALSE]
        ELSE IF occ # 0 /\ is_player(snapshot[occ].typ)
        THEN [entity |-> [monster EXCEPT
                            !.anim_state =
                               Attacking(0, direction(VSub(pos_move,
                                                           prev_position)))],
              attack |-> TRUE]
        ELSE IF occ # 0 /\ is_monster(snapshot[occ].typ)
        THEN [entity |-> monster, attack |-> FALSE]
        ELSE [entity |-> [monster EXCEPT !.pos = pos_move], attack |-> FALSE]

\* an attacks vector that holds one attack per defender: the attacks of
\* the first attacker only
AttacksDeduplicated(snapshot, player, m) ==
    LET on == Ascending({i \in 1 .. Len(snapshot) :
                   /\ is_monster(snapshot[i].typ)
                   /\ MonsterMove(snapshot[i], player, snapshot, m).attack})
    IN  [k \in 1 .. (IF Len(on) > 0 THEN 1 ELSE 0) |-> <<on[k], 1>>]

\* an attacks vector whose defender is the attacking monster
AttacksOnAttacker(snapshot, player, m) ==
    LET on == Ascending({i \in 1 .. Len(snapshot) :
                   /\ is_monster(snapshot[i].typ)
                   /\ MonsterMove(snapshot[i], player, snapshot, m).attack})
    IN  [k \in 1 .. Len(on) |-> <<on[k], on[k]>>]

\* the attacks vector: (attacker, game.player_id) in store order
Attacks(snapshot, player, m) ==
    LET on == Ascending({i \in 1 .. Len(snapshot) :
                   /\ is_monster(snapshot[i].typ)
                   /\ MonsterMove(snapshot[i], player, snapshot, m).attack})
    IN  [k \in 1 .. Len(on) |-> <<on[k], 1>>]

\* an attack that takes two hit points
AttackDamageDouble(typ) == IF is_trap(typ) THEN typ ELSE lose_hp(typ, 2)

\* hit points lost by the defender of one attack (lines 1383-1394)
AttackDamage(typ) == IF is_trap(typ) THEN typ ELSE lose_hp(typ, 1)

\* the loop over the attacks (lines 1382-1407)
RECURSIVE ResolveAttacks(_, _, _)
ResolveAttacks(ents, attacks, k) ==
    IF k > Len(attacks) THEN ents
    ELSE ResolveAttacks(
            [ents EXCEPT ![attacks[k][2]].typ = AttackDamage(@)],
            attacks, k + 1)

\* indices of the monsters with hp <= 0, ascending, collected before any
\* removal (lines 1409-1414)
DeadMonsterIndices(ents) ==
    Ascending({i \in 1 .. Len(ents) :
                  is_monster(ents[i].typ) /\ ents[i].typ.hp <= 0})

\* lines 1415-1418: swap_remove of each collected index, in order; an
\* index past the end of the store is a panic
RECURSIVE RemoveDead(_, _, _)
RemoveDead(ents, indices, k) ==
    IF k > Len(indices) THEN [entities |-> ents, fault |-> "none"]
    ELSE IF indices[k] > Len(ents)
    THEN [entities |-> ents, fault |-> "index out of bounds"]
    ELSE RemoveDead(swap_remove(ents, indices[k]), indices, k + 1)

\* lines 1409-1418 on the store the attacks left
RemoveDeadMonsters(hit, attacks) ==
    [attacks |-> attacks] @@ RemoveDead(hit, DeadMonsterIndices(hit), 1)

\* lines 1382-1418
AttackPhase(moved, attacks) ==
    RemoveDeadMonsters(ResolveAttacks(moved, attacks, 1), attacks)

\* the result: the store, the attacks pushed, and the panic if any
update_monsters(ents, m) ==
    AttackPhase([i \in 1 .. Len(ents) |->
                    IF is_monster(ents[i].typ)
                    THEN MonsterMove(ents[i], ents[1], ents, m).entity
                    ELSE ents[i]],
                Attacks(ents, ents[1], m))

(***************************************************************************)
(* resolve_traps.  rnd is the sequence of (x_offset, y_offset) pairs the   *)
(* Bump arms draw, in scan order.  The scan visits the players and         *)
(* monsters in store order; it mutates the visited entity in the live      *)
(* store (hit points, Teleport and Bump positions) and reads traps and     *)
(* occupants from entities_clone, so the effect on one entity is a         *)
(* function of entities_clone alone; Arrow moves, countdowns and removals  *)
(* are buffered in scan order and applied after the scan.                  *)
(***************************************************************************)
ArrowDir(trap) ==
    CASE trap = "ArrowLeft" -> <<-1, 0>>
      [] trap = "ArrowRight" -> <<1, 0>>
      [] trap = "ArrowUp" -> <<0, -1>>
      [] trap = "ArrowDown" -> <<0, 1>>

\* a loop condition that lets the slide pass free tiles only: a tile that
\* holds a trap halts it
SlideContinuesOnFreeTiles(cur_pos, entities_clone, m) ==
    /\ ~blocked_tile(cur_pos, m)
    /\ occupied_tile(cur_pos, entities_clone) = 0

\* a loop condition that does not look at the map: only a player or a
\* monster halts the slide
SlideContinuesThroughWalls(cur_pos, entities_clone, m) ==
    LET occ == occupied_tile(cur_pos, entities_clone)
    IN  occ = 0 \/ is_trap(entities_clone[occ].typ)

\* the condition of the while loop of the Arrow arm (lines 1606-1608)
SlideContinues(cur_pos, entities_clone, m) ==
    LET occ == occupied_tile(cur_pos, entities_clone)
    IN  /\ ~blocked_tile(cur_pos, m)
        /\ (occ = 0 \/ is_trap(entities_clone[occ].typ))

\* a slide that ends on the tile that stopped it
ArrowSlideOntoStop(pos, dir, entities_clone, m) ==
    LET Cur(j) == <<pos[1] + j * dir[1], pos[2] + j * dir[2]>>
        stops == {j \in 1 .. MAP_WIDTH + MAP_HEIGHT :
                     ~SlideContinues(Cur(j), entities_clone, m)}
        first == CHOOSE j \in stops : \A i \in stops : j <= i
    IN  IF \E j \in stops : \A i \in 1 .. j : Cur(i) \in Grid
        THEN Cur(first)
        ELSE <<>>

\* the while loop of the Arrow arm (lines 1603-1611): cur_pos advances from
\* pos + dir until the condition fails; the result is prev_pos.  Off the
\* grid no tile blocks and no entity stands, so a walk that reaches the
\* edge of the grid never ends: that is reported as <<>>.
ArrowSlide(pos, dir, entities_clone, m) ==
    LET Cur(j) == <<pos[1] + j * dir[1], pos[2] + j * dir[2]>>
        stops == {j \in 1 .. MAP_WIDTH + MAP_HEIGHT :
                     ~SlideContinues(Cur(j), entities_clone, m)}
        first == CHOOSE j \in stops : \A i \in stops : j <= i
    IN  IF \E j \in stops : \A i \in 1 .. j : Cur(i) \in Grid
        THEN Cur(first - 1)
        ELSE <<>>

\* a Teleport arm whose search starts at the trap itself
TeleportTargetFromSelf(trap_index, pos, entities_clone) ==
    LET entities_len == Len(entities_clone)
        OffsetIndex(other_index) ==
            ((other_index + trap_index - 1) % entities_len) + 1
        hits == {other_index \in 0 .. entities_len - 1 :
                    LET other_entity == entities_clone[OffsetIndex(other_index)]
                    IN  is_trap(other_entity.typ)
                        /\ other_entity.typ.trap = "Teleport"}
        first == CHOOSE i \in hits : \A j \in hits : i <= j
    IN  IF hits = {} THEN pos ELSE entities_clone[OffsetIndex(first)].pos

\* the for loop of the Teleport arm (lines 1532-1544): the position of the
\* first Teleport trap at (other_index + trap_index + 1) % len, or the
\* entity's own position when the loop finds none.  trap_index is 1-based
\* here: it is the source's trap_index + 1.
TeleportTarget(trap_index, pos, entities_clone) ==
    LET entities_len == Len(entities_clone)
        OffsetIndex(other_index) ==
            ((other_index + trap_index) % entities_len) + 1
        hits == {other_index \in 0 .. entities_len - 1 :
                    LET other_entity == entities_clone[OffsetIndex(other_index)]
                    IN  is_trap(other_entity.typ)
                        /\ other_entity.typ.trap = "Teleport"}
        first == CHOOSE i \in hits : \A j \in hits : i <= j
    IN  IF hits = {} THEN pos ELSE entities_clone[OffsetIndex(first)].pos

\* position of the first entity equal to trap_entity (line 1496)
TrapIndex(trap_entity, entities_clone) ==
    FirstIndex({i \in 1 .. Len(entities_clone) :
                   entities_clone[i] = trap_entity})

\* the trap the scan finds for the entity at index: its index in
\* entities_clone, 0 when the entity stands on no trap (lines 1495-1496)
TrapOf(index, entities_clone) ==
    LET found == trap_tile(entities_clone[index].pos, entities_clone)
    IN  IF found = 0 THEN 0
        ELSE TrapIndex(entities_clone[found], entities_clone)

\* the kind of that trap, "-" when there is none
TrapKindOf(index, entities_clone) ==
    LET t == TrapOf(index, entities_clone)
    IN  IF t = 0 THEN "-" ELSE entities_clone[t].typ.trap

\* a scan without the filter of line 1493: it visits the traps as well
ScannedUnfiltered(entities_clone) == 1 .. Len(entities_clone)

\* the entities the scan visits (line 1493), in store order
Scanned(entities_clone) ==
    {i \in 1 .. Len(entities_clone) :
        is_player(entities_clone[i].typ) \/ is_monster(entities_clone[i].typ)}

ScannedOn(kinds, entities_clone) ==
    {i \in Scanned(entities_clone) : TrapKindOf(i, entities_clone) \in kinds}

ArrowKinds == {"ArrowLeft", "ArrowRight", "ArrowUp", "ArrowDown"}

\* what the scan does to the visited entity in the live store
\* (lines 1497-1613); draw is the Bump arm's random offset
TrapEffect(index, entities_clone, m, draw) ==
    LET entity == entities_clone[index]
        trap_index == TrapOf(index, entities_clone)
        trap == TrapKindOf(index, entities_clone)
    IN  CASE trap = "Kill" ->
               [entity EXCEPT !.typ = lose_hp(@, TRAP_DAMAGE)]
          [] trap = "Teleport" ->
               [entity EXCEPT
                  !.pos = TeleportTarget(trap_index, entity.pos, entities_clone)]
          [] trap = "Bump" ->
               [entity EXCEPT !.pos = attempt_move(entity.pos, draw, m)]
          [] trap = "CountDown" /\ entities_clone[trap_index].typ.n = 0 ->
               [entity EXCEPT !.typ = lose_hp(@, TRAP_DAMAGE)]
          \* Berserk: the match binds a copy of the payload (EntityType is
          \* Copy), the status is set on the copy and the store is not
          \* changed.  CountDown(n > 0), Arrow, NextLevel, Win: buffered or
          \* signalled, the entity itself is not changed by the scan.
          [] OTHER -> entity

\* a scan in which an entity that a Teleport or Bump trap has put on a
\* Kill trap is hit by that trap as well
ScanStoreCascading(entities_clone, m, rnd) ==
    LET bumped == ScannedOn({"Bump"}, entities_clone)
        DrawOf(i) == IF i \in bumped
                     THEN rnd[Cardinality({j \in bumped : j < i}) + 1]
                     ELSE <<0, 0>>
        Once(i) == TrapEffect(i, entities_clone, m, DrawOf(i))
        OnKill(pos) ==
            /\ trap_tile(pos, entities_clone) # 0
            /\ entities_clone[trap_tile(pos, entities_clone)].typ.trap = "Kill"
    IN  [i \in 1 .. Len(entities_clone) |->
            IF i \in Scanned(entities_clone)
            THEN IF Once(i).pos # entities_clone[i].pos /\ OnKill(Once(i).pos)
                 THEN [Once(i) EXCEPT !.typ = lose_hp(@, TRAP_DAMAGE)]
                 ELSE Once(i)
            ELSE entities_clone[i]]

\* the store after the scan: the Bump draws are consumed in scan order
ScanStore(entities_clone, m, rnd) ==
    LET bumped == ScannedOn({"Bump"}, entities_clone)
        DrawOf(i) == IF i \in bumped
                     THEN rnd[Cardinality({j \in bumped : j < i}) + 1]
                     ELSE <<0, 0>>
    IN  [i \in 1 .. Len(entities_clone) |->
            IF i \in Scanned(entities_clone)
            THEN TrapEffect(i, entities_clone, m, DrawOf(i))
            ELSE entities_clone[i]]

\* a Kill arm that schedules no removal
RemovalsNone(entities_clone) == <<>>

\* the removals vector: the Kill trap under each visited entity, in scan
\* order (line 1518)
Removals(entities_clone) ==
    LET on == Ascending(ScannedOn({"Kill"}, entities_clone))
    IN  [k \in 1 .. Len(on) |-> TrapOf(on[k], entities_clone)]

\* the moves vector (line 1612): (prev_pos, index) in scan order
Moves(entities_clone, m) ==
    LET on == Ascending(ScannedOn(ArrowKinds, entities_clone))
    IN  [k \in 1 .. Len(on) |->
            <<ArrowSlide(entities_clone[on[k]].pos,
                         ArrowDir(TrapKindOf(on[k], entities_clone)),
                         entities_clone, m),
              on[k]>>]

\* a count_downs vector that carries n instead of n - 1
CountDownsStuck(entities_clone) ==
    LET on == Ascending(
                {i \in ScannedOn({"CountDown"}, entities_clone) :
                    entities_clone[TrapOf(i, entities_clone)].typ.n # 0})
    IN  [k \in 1 .. Len(on) |->
            <<TrapOf(on[k], entities_clone),
              entities_clone[TrapOf(on[k], entities_clone)].typ.n>>]

\* the count_downs vector (line 1561): (trap_index, n - 1) in scan order
CountDowns(entities_clone) ==
    LET on == Ascending(
                {i \in ScannedOn({"CountDown"}, entities_clone) :
                    entities_clone[TrapOf(i, entities_clone)].typ.n # 0})
    IN  [k \in 1 .. Len(on) |->
            <<TrapOf(on[k], entities_clone),
              entities_clone[TrapOf(on[k], entities_clone)].typ.n - 1>>]

\* lines 1623-1625; every index occurs at most once in moves
ApplyMoves(ents, moves) ==
    [i \in 1 .. Len(ents) |->
        IF \E k \in 1 .. Len(moves) : moves[k][2] = i
        THEN [ents[i] EXCEPT
                !.pos = moves[CHOOSE k \in 1 .. Len(moves) : moves[k][2] = i][1]]
        ELSE ents[i]]

\* a count down that leaves the glyph of the trap as it was
ApplyCountDownsOldGlyph(ents, count_downs) ==
    [i \in 1 .. Len(ents) |->
        IF \E k \in 1 .. Len(count_downs) : count_downs[k][1] = i
        THEN [ents[i] EXCEPT
                !.typ = TrapTyp("CountDown",
                          count_downs[CHOOSE k \in 1 .. Len(count_downs) :
                                         count_downs[k][1] = i][2])]
        ELSE ents[i]]

\* lines 1627-1630; the entries for one trap all carry the same n - 1
ApplyCountDowns(ents, count_downs) ==
    [i \in 1 .. Len(ents) |->
        IF \E k \in 1 .. Len(count_downs) : count_downs[k][1] = i
        THEN LET new_n ==
                   count_downs[CHOOSE k \in 1 .. Len(count_downs) :
                                  count_downs[k][1] = i][2]
             IN  [ents[i] EXCEPT !.typ = TrapTyp("CountDown", new_n),
                                 !.glyph = 48 + new_n]
        ELSE ents[i]]

\* removals.sort(); removals.reverse(): descending, duplicates kept
SortDescending(s) ==
    LET Rank(i) == 1 + Cardinality({j \in 1 .. Len(s) :
                          s[j] > s[i] \/ (s[j] = s[i] /\ j < i)})
    IN  [k \in 1 .. Len(s) |-> s[CHOOSE i \in 1 .. Len(s) : Rank(i) = k]]

\* lines 1634-1646: entities[*index] is read (a panic when the index is
\* past the end), then swap_remove(*index)
RECURSIVE RemoveAll(_, _, _)
RemoveAll(ents, indices, k) ==
    IF k > Len(indices) THEN [entities |-> ents, fault |-> "none"]
    ELSE IF indices[k] > Len(ents)
    THEN [entities |-> ents, fault |-> "index out of bounds"]
    ELSE RemoveAll(swap_remove(ents, indices[k]), indices, k + 1)

\* number of Bump draws the scan of this store makes
BumpDraws(ents) == Cardinality(ScannedOn({"Bump"}, ents))

\* signals that any entity on an exit trap raises
TrapRemovalsAnyEntity(counted, entities_clone) ==
    [next_level |-> ScannedOn({"NextLevel"}, entities_clone) # {},
     win |-> ScannedOn({"Win"}, entities_clone) # {}]
    @@ RemoveAll(counted, SortDescending(Removals(entities_clone)), 1)

\* lines 1632-1646 and the signals, on the store the buffered moves and
\* countdowns left
TrapRemovals(counted, entities_clone) ==
    [next_level |-> \E i \in ScannedOn({"NextLevel"}, entities_clone) :
                       is_player(entities_clone[i].typ),
     win |-> \E i \in ScannedOn({"Win"}, entities_clone) :
                is_player(entities_clone[i].typ)]
    @@ RemoveAll(counted, SortDescending(Removals(entities_clone)), 1)

\* lines 1623-1646 on the store the scan left
AfterScan(scanned, moves, entities_clone) ==
    IF \E k \in 1 .. Len(moves) : moves[k][1] = <<>>
    THEN [entities |-> entities_clone, next_level |-> FALSE, win |-> FALSE,
          fault |-> "hang"]
    ELSE TrapRemovals(
            ApplyCountDowns(ApplyMoves(scanned, moves),
                            CountDowns(entities_clone)),
            entities_clone)

resolve_traps(ents, m, rnd) ==
    AfterScan(ScanStore(ents, m, rnd), Moves(ents, m), ents)

(***************************************************************************)
(* Game::update, GameState::Playing arm, as a function of the state, the   *)
(* keys pressed and the Bump draws.                                        *)
(***************************************************************************)
Playing(n) == [st |-> "Playing", n |-> n]
NextLevel(n) == [st |-> "NextLevel", n |-> n]
Win == [st |-> "Win", n |-> 0]
Lost == [st |-> "Lost", n |-> 0]

\* a next-level signal that already counts the level
SignalStateCounting(gs, next_level, win) ==
    IF next_level THEN NextLevel(gs.n + 1)
    ELSE IF win THEN Win
    ELSE gs

\* lines 995-999
SignalState(gs, next_level, win) ==
    IF next_level THEN NextLevel(gs.n)
    ELSE IF win THEN Win
    ELSE gs

\* a loss check that leaves a raised signal in place
LossCheckUnlessSignalled(gs, ents) ==
    IF ents[1].typ.hp <= 0 /\ gs.st = "Playing" THEN Lost ELSE gs

\* lines 1006-1008
LossCheck(gs, ents) == IF ents[1].typ.hp <= 0 THEN Lost ELSE gs

\* a filter that drops nothing
FilterDeadNone(ents) == ents

\* a filter that drops every player or monster without hit points
FilterDeadAny(ents) ==
    SelectSeq(ents, LAMBDA e : IF is_trap(e.typ) THEN TRUE ELSE e.typ.hp > 0)

\* lines 1010-1016
FilterDead(ents) ==
    SelectSeq(ents, LAMBDA e : IF is_monster(e.typ) THEN e.typ.hp > 0 ELSE TRUE)

\* update_monsters when update_player reported a turn (lines 983-992)
AfterPlayer(p, m) ==
    IF p.took_turn
    THEN [took_turn |-> TRUE] @@ update_monsters(p.entities, m)
    ELSE [took_turn |-> FALSE, entities |-> p.entities,
          attacks |-> <<>>, fault |-> "none"]

\* a monster phase that runs before the player's move: the monsters
\* decide against the player's position of the previous turn
MonsterPhaseBeforePlayer(ents, m, keys) ==
    IF update_player(ents, keys, m).took_turn
    THEN [took_turn |-> TRUE,
          entities |->
             update_player(update_monsters(ents, m).entities, keys, m).entities,
          attacks |-> update_monsters(ents, m).attacks,
          fault |-> update_monsters(ents, m).fault]
    ELSE [took_turn |-> FALSE, entities |-> ents,
          attacks |-> <<>>, fault |-> "none"]

\* the store after update_player and update_monsters
MonsterPhase(ents, m, keys) == AfterPlayer(update_player(ents, keys, m), m)

\* lines 995-1016 on the result of resolve_traps
AfterTraps(gs, tr) ==
    IF tr.fault # "none"
    THEN [game_state |-> gs, entities |-> tr.entities, fault |-> tr.fault,
          next_level |-> tr.next_level, win |-> tr.win]
    ELSE [game_state |->
             LossCheck(SignalState(gs, tr.next_level, tr.win), tr.entities),
          entities |-> FilterDead(tr.entities), fault |-> "none",
          next_level |-> tr.next_level, win |-> tr.win]

\* lines 986-1016 on the result of the monster phase
AfterMonsters(gs, mon, m, rnd) ==
    IF ~mon.took_turn
    THEN [game_state |-> LossCheck(gs, mon.entities),
          entities |-> FilterDead(mon.entities), fault |-> "none",
          next_level |-> FALSE, win |-> FALSE]
    ELSE IF mon.fault # "none"
    THEN [game_state |-> gs, entities |-> mon.entities, fault |-> mon.fault,
          next_level |-> FALSE, win |-> FALSE]
    ELSE AfterTraps(gs, resolve_traps(mon.entities, m, rnd))

update_playing(gs, ents, m, keys, rnd) ==
    AfterMonsters(gs, MonsterPhase(ents, m, keys), m, rnd)

Offsets == (-1 .. 1) \X (-1 .. 1)

(***************************************************************************)
(* Levels the generators can produce, used for the initial and for the     *)
(* regenerated levels: a walled room in the top left corner of the map,    *)
(* with some of the entities inside it and the others outside.             *)
(***************************************************************************)
Seg(x, y, x_dir, y_dir, dist) ==
    [x |-> x, y |-> y, x_dir |-> x_dir, y_dir |-> y_dir, dist |-> dist]

\* walls (4,1)..(4,4) and (1,4)..(3,4): the room is 1..3 x 1..3; the last
\* segment runs from (4,3) onto the border tile (4,0)
RoomPlan ==
    <<Seg(4, 4, 0, -1, 4), Seg(3, 4, -1, 0, 3), Seg(4, 4, 0, -1, 4),
      Seg(3, 4, -1, 0, 3), Seg(4, 3, 0, -1, 4)>>

\* positions in the order generate_entities draws them: gol, rook, Bump,
\* Kill x 4, Arrow Left, Right, Up, Down, exit, player
Layouts ==
    { [plan |-> RoomPlan,
       positions |-> <<<<2, 2>>, <<3, 3>>, <<6, 6>>,
                       <<2, 3>>, <<6, 2>>, <<7, 2>>, <<8, 2>>,
                       <<1, 1>>, <<1, 2>>, <<7, 4>>, <<8, 4>>,
                       <<3, 1>>, <<2, 1>>>>],
      [plan |-> RoomPlan,
       positions |-> <<<<1, 2>>, <<3, 2>>, <<6, 6>>,
                       <<2, 1>>, <<6, 2>>, <<7, 2>>, <<8, 2>>,
                       <<6, 4>>, <<6, 8>>, <<7, 4>>, <<8, 4>>,
                       <<1, 1>>, <<2, 2>>>>],
      [plan |-> RoomPlan,
       positions |-> <<<<5, 2>>, <<3, 3>>, <<2, 1>>,
                       <<3, 2>>, <<6, 2>>, <<7, 2>>, <<8, 2>>,
                       <<3, 1>>, <<1, 2>>, <<2, 3>>, <<2, 2>>,
                       <<1, 3>>, <<1, 1>>>>] }

(***************************************************************************)
(* The state machine.  last records what the latest update did: the arm of *)
(* Game::update that ran, whether a direction key was pressed, whether     *)
(* update_player reported a turn, the number of attacks pushed, the number *)
(* of monsters that another monster held in place, the kinds               *)
(* of the traps the scan found under an entity, and the signals            *)
(* resolve_traps raised.                                                   *)
(***************************************************************************)
History(op, pressed, took_turn, attacks, held, traps, next_level, win) ==
    [op |-> op, pressed |-> pressed, took_turn |-> took_turn,
     attacks |-> attacks, held |-> held, traps |-> traps,
     next_level |-> next_level, win |-> win]

NoTurn(op) == History(op, FALSE, FALSE, 0, 0, {}, FALSE, FALSE)

\* Game::new (lines 862-889) on the map and the entities generated
NewGame(cleared, placed) ==
    /\ map = [t \in Grid |->
                IF occupied_tile(t, placed) # 0 THEN FALSE ELSE cleared[t]]
    /\ entities = placed
    /\ game_state = Playing(0)
    /\ fault = "none"
    /\ last = NoTurn("new")

Init ==
    \E lay \in Layouts :
        /\ ValidPlan(lay.plan)
        /\ map_unique_pos(lay.positions,
                          [generate_map(lay.plan) EXCEPT ![<<5, 3>>] = FALSE])
        /\ NewGame([generate_map(lay.plan) EXCEPT ![<<5, 3>>] = FALSE],
                   [<<NewPlayer>> \o generate_entities(FALSE, lay.positions)
                       EXCEPT ![1].pos = lay.positions[13]])

\* the entity the find() of the Win arm yields (lines 955-960)
WinTrap(ents) ==
    FirstIndex({i \in 1 .. Len(ents) :
                   is_trap(ents[i].typ) /\ ents[i].typ.trap = "Win"})

\* GameState::Win arm (lines 954-962)
UpdateWin ==
    /\ fault = "none"
    /\ game_state.st = "Win"
    /\ IF WinTrap(entities) = 0
       THEN /\ fault' = "unwrap on None"
            /\ UNCHANGED entities
       ELSE /\ entities' =
                  [entities EXCEPT ![1].pos = entities[WinTrap(entities)].pos]
            /\ UNCHANGED fault
    /\ last' = NoTurn("win")
    /\ UNCHANGED <<game_state, map>>

\* a NextLevel arm that starts the new level with a new player
UpdateNextLevelNewPlayer ==
    /\ fault = "none"
    /\ game_state.st = "NextLevel"
    /\ IF game_state.n >= NUM_LEVEL_GAME
       THEN /\ game_state' = Win
            /\ UNCHANGED <<map, entities>>
       ELSE \E lay \in Layouts :
               /\ ValidPlan(lay.plan)
               /\ map_unique_pos(lay.positions, generate_map(lay.plan))
               /\ map' = generate_map(lay.plan)
               /\ entities' =
                     [<<NewPlayer>> \o
                      generate_entities(game_state.n + 1 = NUM_LEVEL_GAME,
                                        lay.positions)
                         EXCEPT ![1].pos = lay.positions[13]]
               /\ game_state' = Playing(game_state.n + 1)
    /\ last' = NoTurn("next")
    /\ UNCHANGED fault

\* GameState::NextLevel arm (lines 964-980)
UpdateNextLevel ==
    /\ fault = "none"
    /\ game_state.st = "NextLevel"
    /\ IF game_state.n >= NUM_LEVEL_GAME
       THEN /\ game_state' = Win
            /\ UNCHANGED <<map, entities>>
       ELSE \E lay \in Layouts :
               /\ ValidPlan(lay.plan)
               /\ map_unique_pos(lay.positions, generate_map(lay.plan))
               /\ map' = generate_map(lay.plan)
               /\ entities' =
                     [<<entities[1]>> \o
                      generate_entities(game_state.n + 1 = NUM_LEVEL_GAME,
                                        lay.positions)
                         EXCEPT ![1].pos = lay.positions[13]]
               /\ game_state' = Playing(game_state.n + 1)
    /\ last' = NoTurn("next")
    /\ UNCHANGED fault

\* the kinds of the traps the scan of this turn finds under an entity
TurnTraps(mon) ==
    IF mon.took_turn /\ mon.fault = "none"
    THEN {TrapKindOf(i, mon.entities) : i \in Scanned(mon.entities)} \ {"-"}
    ELSE {}

\* the number of monsters of the store p the player's move left that the
\* branch of line 1372 holds in place: their destination does not block
\* and occupied_tile finds a monster on it
MonstersHeld(p, m) ==
    IF ~p.took_turn THEN 0
    ELSE Cardinality(
            {k \in 1 .. Len(p.entities) :
                /\ is_monster(p.entities[k].typ)
                /\ ~blocked_tile(MonsterTarget(p.entities[k], p.entities[1], m),
                                 m)
                /\ occupied_tile(MonsterTarget(p.entities[k], p.entities[1], m),
                                 p.entities) # 0
                /\ is_monster(p.entities[
                      occupied_tile(MonsterTarget(p.entities[k],
                                                  p.entities[1], m),
                                    p.entities)].typ)})

\* the end of the Playing arm: the new state from the result r
PlayingResult(r, pressed, took_turn, attacks, held, traps) ==
    /\ game_state' = r.game_state
    /\ entities' = r.entities
    /\ fault' = r.fault
    /\ last' = History("playing", pressed, took_turn, attacks, held, traps,
                       r.next_level, r.win)

\* the Bump draws of the turn whose monster phase gave mon
PlayingDraws(mon, pressed, held) ==
    \E rnd \in [1 .. (IF mon.took_turn /\ mon.fault = "none"
                      THEN BumpDraws(mon.entities) ELSE 0) -> Offsets] :
        PlayingResult(AfterMonsters(game_state, mon, map, rnd), pressed,
                      mon.took_turn, Len(mon.attacks), held, TurnTraps(mon))

\* GameState::Playing arm (lines 982-1017)
UpdatePlaying ==
    /\ fault = "none"
    /\ game_state.st = "Playing"
    /\ \E keys \in SUBSET Keys :
          PlayingDraws(MonsterPhase(entities, map, keys), keys # {},
                       MonstersHeld(update_player(entities, keys, map), map))
    /\ UNCHANGED map

\* GameState::Lost arm (lines 1019-1020)
UpdateLost ==
    /\ fault = "none"
    /\ game_state.st = "Lost"
    /\ last' = NoTurn("lost")
    /\ UNCHANGED <<game_state, map, entities, fault>>

Next == UpdateWin \/ UpdateNextLevel \/ UpdatePlaying \/ UpdateLost

Spec == Init /\ [][Next]_vars

(***************************************************************************)
(* resolve_traps on stores with Teleport traps.  The release branch of     *)
(* generate_entities places none; the fixed-layout branch (lines 450-466)  *)
(* does.  The stores below are built the way that branch builds them (gol, *)
(* rook, then the traps in the order given), on positions inside and next  *)
(* to the walled room, and the game is started on them.                    *)
(***************************************************************************)
\* traps is a sequence of <<kind, n>> pairs, positions holds the positions
\* of gol, rook and the traps in that order, and then the player's
generate_entities_fixed(traps, positions) ==
    <<EntityGol(positions[1]), EntityRook(positions[2])>> \o
    [k \in 1 .. Len(traps) |->
        EntityTrap(positions[k + 2], traps[k][1], traps[k][2])]

\* one, two and three Teleport traps
TeleportLevels ==
    { [plan |-> RoomPlan,
       traps |-> <<<<"Teleport", 0>>, <<"NextLevel", 0>>>>,
       positions |-> <<<<5, 2>>, <<5, 3>>, <<1, 1>>, <<3, 3>>, <<2, 2>>>>],
      [plan |-> RoomPlan,
       traps |-> <<<<"Teleport", 0>>, <<"Bump", 0>>, <<"Teleport", 0>>,
                   <<"NextLevel", 0>>>>,
       positions |-> <<<<1, 3>>, <<5, 3>>, <<1, 1>>, <<6, 6>>, <<3, 1>>,
                       <<3, 3>>, <<2, 2>>>>],
      [plan |-> RoomPlan,
       traps |-> <<<<"Teleport", 0>>, <<"Teleport", 0>>, <<"NextLevel", 0>>,
                   <<"Teleport", 0>>>>,
       positions |-> <<<<5, 2>>, <<5, 3>>, <<1, 1>>, <<3, 1>>, <<3, 3>>,
                       <<1, 3>>, <<2, 2>>>>] }

InitTeleport ==
    \E lev \in TeleportLevels :
        /\ ValidPlan(lev.plan)
        /\ map_unique_pos(lev.positions,
                          [generate_map(lev.plan) EXCEPT ![<<5, 3>>] = FALSE])
        /\ NewGame([generate_map(lev.plan) EXCEPT ![<<5, 3>>] = FALSE],
                   [<<NewPlayer>> \o
                    generate_entities_fixed(lev.traps, lev.positions)
                       EXCEPT ![1].pos = lev.positions[Len(lev.positions)]])

SpecTeleport == InitTeleport /\ [][Next]_vars

\* a CountDown(2) and a Berserk trap (the kinds of lines 454 and 462), with
\* the gol inside the room and the rook outside
CountDownLevels ==
    { [plan |-> RoomPlan,
       traps |-> <<<<"CountDown", 2>>, <<"Berserk", 0>>, <<"NextLevel", 0>>>>,
       positions |-> <<<<1, 3>>, <<5, 3>>, <<2, 2>>, <<1, 1>>, <<3, 3>>,
                       <<2, 1>>>>] }

InitCountDown ==
    \E lev \in CountDownLevels :
        /\ ValidPlan(lev.plan)
        /\ map_unique_pos(lev.positions,
                          [generate_map(lev.plan) EXCEPT ![<<5, 3>>] = FALSE])
        /\ NewGame([generate_map(lev.plan) EXCEPT ![<<5, 3>>] = FALSE],
                   [<<NewPlayer>> \o
                    generate_entities_fixed(lev.traps, lev.positions)
                       EXCEPT ![1].pos = lev.positions[Len(lev.positions)]])

SpecCountDown == InitCountDown /\ [][Next]_vars

\* gol, rook and player inside the room, with a Berserk trap at (3,2)
\* that a monster can step onto and stay on
CrowdedLevels ==
    { [plan |-> RoomPlan,
       traps |-> <<<<"Berserk", 0>>, <<"NextLevel", 0>>>>,
       positions |-> <<<<2, 1>>, <<2, 3>>, <<3, 2>>, <<1, 1>>, <<2, 2>>>>] }

InitCrowded ==
    \E lev \in CrowdedLevels :
        /\ ValidPlan(lev.plan)
        /\ map_unique_pos(lev.positions,
                          [generate_map(lev.plan) EXCEPT ![<<5, 3>>] = FALSE])
        /\ NewGame([generate_map(lev.plan) EXCEPT ![<<5, 3>>] = FALSE],
                   [<<NewPlayer>> \o
                    generate_entities_fixed(lev.traps, lev.positions)
                       EXCEPT ![1].pos = lev.positions[Len(lev.positions)]])

SpecCrowded == InitCrowded /\ [][Next]_vars

\* a level generate_entities can produce in which gol and rook reach the
\* Kill trap at (2,1) in one turn while the player stands off the exit
\* trap at (3,3)
ExitLevels ==
    { [plan |-> RoomPlan,
       positions |-> <<<<1, 2>>, <<3, 2>>, <<6, 6>>,
                       <<2, 1>>, <<6, 2>>, <<7, 2>>, <<8, 2>>,
                       <<6, 4>>, <<6, 8>>, <<7, 4>>, <<8, 4>>,
                       <<3, 3>>, <<2, 2>>>>] }

InitExit ==
    \E lay \in ExitLevels :
        /\ ValidPlan(lay.plan)
        /\ map_unique_pos(lay.positions,
                          [generate_map(lay.plan) EXCEPT ![<<5, 3>>] = FALSE])
        /\ NewGame([generate_map(lay.plan) EXCEPT ![<<5, 3>>] = FALSE],
                   [<<NewPlayer>> \o generate_entities(FALSE, lay.positions)
                       EXCEPT ![1].pos = lay.positions[13]])

SpecExit == InitExit /\ [][Next]_vars

\* a CountDown(2) trap at (2,1) that gol and rook reach in one turn
PairLevels ==
    { [plan |-> RoomPlan,
       traps |-> <<<<"CountDown", 2>>, <<"NextLevel", 0>>>>,
       positions |-> <<<<1, 2>>, <<3, 2>>, <<2, 1>>, <<3, 3>>, <<2, 2>>>>] }

InitPair ==
    \E lev \in PairLevels :
        /\ ValidPlan(lev.plan)
        /\ map_unique_pos(lev.positions,
                          [generate_map(lev.plan) EXCEPT ![<<5, 3>>] = FALSE])
        /\ NewGame([generate_map(lev.plan) EXCEPT ![<<5, 3>>] = FALSE],
                   [<<NewPlayer>> \o
                    generate_entities_fixed(lev.traps, lev.positions)
                       EXCEPT ![1].pos = lev.positions[Len(lev.positions)]])

SpecPair == InitPair /\ [][Next]_vars

(***************************************************************************)
(* Properties.  A property of one turn is stated over every input the next *)
(* update can receive in the current state: the keys pressed and the Bump  *)
(* draws.                                                                  *)
(***************************************************************************)
\* indices of the players and monsters of a store
NonTraps(ents) == {i \in 1 .. Len(ents) : ~is_trap(ents[i].typ)}

\* the state is one in which Game::update runs the turn pipeline
InPlay == fault = "none" /\ game_state.st = "Playing"

\* C1: after any completed turn no two distinct non-trap entities (player
\* or monsters) occupy the same position.
NoDoubleOccupancy ==
    fault = "none" =>
        \A i, j \in NonTraps(entities) :
            entities[i].pos = entities[j].pos => i = j

\* C2: in every reachable state no entity (player, monster or trap) has a
\* position equal to a tile whose blocks flag is true.
WallContainment ==
    \A i \in 1 .. Len(entities) : ~blocked_tile(entities[i].pos, map)

\* a turn was taken in which a Bump or an Arrow trap moved an entity, and
\* a player or monster now stands next to a blocking tile
WallContainmentWitness ==
    /\ last.op = "playing" /\ last.took_turn
    /\ last.traps \cap (ArrowKinds \cup {"Bump"}) # {}
    /\ \E i \in NonTraps(entities) :
          \E d \in Offsets : blocked_tile(VAdd(entities[i].pos, d), map)

\* the monsters whose attempted move is the player's tile, in the store the
\* player's move left
Attackers(ents, m) ==
    {i \in 1 .. Len(ents) :
        /\ is_monster(ents[i].typ)
        /\ MonsterTarget(ents[i], ents[1], m) = ents[1].pos}

\* C3 for the store p the player's move left and the store mon the monster
\* phase left
CombatSymmetryOf(p, mon, m) ==
    /\ mon.fault = "none"
    /\ mon.entities[1].typ.hp =
          p[1].typ.hp - Cardinality(Attackers(p, m))
    /\ \A i \in Attackers(p, m) :
          /\ mon.entities[i].typ = p[i].typ
          /\ mon.entities[i].pos # mon.entities[1].pos

\* C3: if N monsters attempt in the same turn to move onto the player's
\* tile, the player loses exactly N hit points from combat in that turn and
\* none of those N monsters occupies the player's tile after the monster
\* phase.
CombatSymmetry ==
    InPlay =>
        \A keys \in SUBSET Keys :
            update_player(entities, keys, map).took_turn =>
                CombatSymmetryOf(
                    update_player(entities, keys, map).entities,
                    update_monsters(
                        update_player(entities, keys, map).entities, map),
                    map)

\* a turn in which two monsters attacked has been completed, and both still
\* stand next to the player
CombatSymmetryWitness ==
    /\ fault = "none" /\ last.op = "playing" /\ last.attacks = 2
    /\ Cardinality({i \in NonTraps(entities) :
                       /\ is_monster(entities[i].typ)
                       /\ entities[i].anim_state.s = "Attacking"
                       /\ entities[i].pos # entities[1].pos}) >= 2

\* the step of the monster at index i of the store the player's move left
MonsterStep(ents, i, m) ==
    VSub(MonsterMove(ents[i], ents[1], ents, m).entity.pos, ents[i].pos)

\* C4: in every turn and from every reachable configuration a Rook's
\* position changes along at most one axis; a Rook never moves diagonally.
RookAxisLock ==
    InPlay =>
        \A keys \in SUBSET Keys :
            update_player(entities, keys, map).took_turn =>
                \A i \in 1 .. Len(entities) :
                    is_rook(entities[i].typ) =>
                        \/ MonsterStep(
                              update_player(entities, keys, map).entities,
                              i, map)[1] = 0
                        \/ MonsterStep(
                              update_player(entities, keys, map).entities,
                              i, map)[2] = 0

\* positions and hit points of a store
PosHp(ents) == [i \in 1 .. Len(ents) |-> <<ents[i].pos, ents[i].typ.hp>>]

\* C5: once the level state is Lost or Win, every further update leaves the
\* level state, every entity's position and every entity's hit points
\* unchanged, and never faults.
TerminalAbsorbing ==
    [][(fault = "none" /\ game_state.st \in {"Lost", "Win"}) =>
          /\ fault' = "none"
          /\ game_state' = game_state
          /\ PosHp(entities') = PosHp(entities)]_vars

\* C6: a next-level signal in Playing(k) leads through NextLevel(k) to
\* Playing(k + 1) with a regenerated level when k + 1 < NUM_LEVEL_GAME and
\* to Win when k + 1 = NUM_LEVEL_GAME; a win signal leads to Win; Playing(k)
\* is left in no other way except to Lost.
LevelStateMachine ==
    [][fault = "none" =>
          /\ game_state.st = "NextLevel" =>
                IF game_state.n + 1 < NUM_LEVEL_GAME
                THEN /\ game_state' = Playing(game_state.n + 1)
                     /\ \E lay \in Layouts, last_level \in BOOLEAN :
                           /\ map' = generate_map(lay.plan)
                           /\ Tail(entities') =
                                 generate_entities(last_level, lay.positions)
                ELSE game_state' = Win
          /\ game_state.st = "Playing" =>
                \/ game_state' = game_state
                \/ game_state' = Lost
                \/ last'.next_level /\ game_state' = NextLevel(game_state.n)
                \/ last'.win /\ ~last'.next_level /\ game_state' = Win]_vars

\* C7: at the end of every update in which the player's hit points are
\* <= 0 the level state is Lost, also when the turn raised the next-level
\* or the win signal: in every reachable state with level state Playing,
\* NextLevel or Win the player's hit points are > 0.
LossOverridesSignals ==
    (fault = "none" /\ game_state.st \in {"Playing", "NextLevel", "Win"}) =>
        entities[1].typ.hp > 0

\* a turn raised a signal and left the player without hit points
LossOverridesSignalsWitness ==
    /\ fault = "none" /\ game_state.st = "Lost"
    /\ last.op = "playing" /\ (last.next_level \/ last.win)
    /\ entities[1].typ.hp <= 0

\* C8: in every reachable state the store holds exactly one Player entity,
\* at index 0 of the source (1 here); no removal deletes or relocates it,
\* also when the player's hit points are <= 0.
PlayerUniqueness ==
    /\ Len(entities) >= 1
    /\ {i \in 1 .. Len(entities) : is_player(entities[i].typ)} = {1}

\* the player lost all hit points on a Kill trap, and the removal of that
\* trap has left fewer than the four Kill traps of the level
PlayerUniquenessWitness ==
    /\ fault = "none" /\ game_state.st = "Lost"
    /\ last.op = "playing" /\ "Kill" \in last.traps
    /\ entities[1].typ.hp <= 0
    /\ Cardinality({i \in 1 .. Len(entities) :
                       entities[i].typ.trap = "Kill"}) < 4

\* C9 for the store mon the monster phase left and the result tr of
\* resolve_traps on it: every player or monster on a Kill trap is in the
\* result with 5 hit points less, and no Kill trap is left at its position
KillOneShotOf(mon, tr) ==
    \A i \in ScannedOn({"Kill"}, mon) :
        /\ \E j \in 1 .. Len(tr.entities) :
              tr.entities[j] = [mon[i] EXCEPT !.typ.hp = @ - TRAP_DAMAGE]
        /\ \A j \in 1 .. Len(tr.entities) :
              ~(/\ tr.entities[j].typ.trap = "Kill"
                /\ tr.entities[j].pos = mon[i].pos)

\* C9 for the monster phase result mon of one turn
KillOneShotTurn(mon) ==
    (mon.took_turn /\ mon.fault = "none") =>
        \A rnd \in [1 .. BumpDraws(mon.entities) -> Offsets] :
            resolve_traps(mon.entities, map, rnd).fault = "none" =>
                KillOneShotOf(mon.entities,
                              resolve_traps(mon.entities, map, rnd))

\* C9: when a player or monster stands on a Kill trap at trap resolution,
\* that entity loses exactly 5 hit points exactly once, and that Kill trap
\* is absent from the entity store after the turn.
KillOneShot ==
    InPlay =>
        \A keys \in SUBSET Keys :
            KillOneShotTurn(MonsterPhase(entities, map, keys))

\* a turn in which a Kill trap fired has been completed and fewer than the
\* four Kill traps of the level are left
KillOneShotWitness ==
    /\ fault = "none" /\ last.op = "playing" /\ "Kill" \in last.traps
    /\ Cardinality({i \in 1 .. Len(entities) :
                       entities[i].typ.trap = "Kill"}) < 4

\* the Teleport traps of a store, by index
Teleports(ents) ==
    {t \in 1 .. Len(ents) : ents[t].typ.trap = "Teleport"}

\* the least index of a non-empty set of indices
MinIndex(S) == CHOOSE t \in S : \A u \in S : t <= u

\* the next Teleport trap after trap t in store order, wrapping past the
\* end of the store and skipping t; t itself when there is no other
NextTeleport(t, ents) ==
    IF {u \in Teleports(ents) : u > t} # {}
    THEN MinIndex({u \in Teleports(ents) : u > t})
    ELSE IF Teleports(ents) \ {t} # {}
    THEN MinIndex(Teleports(ents) \ {t})
    ELSE t

\* the Teleport trap under the entity at index i
TeleportUnder(i, ents) ==
    CHOOSE t \in Teleports(ents) : ents[t].pos = ents[i].pos

\* C10 for the store mon the monster phase left and the result tr of
\* resolve_traps on it
TeleportCycleOf(mon, tr) ==
    \A i \in ScannedOn({"Teleport"}, mon) :
        /\ tr.entities[i].typ = mon[i].typ
        /\ tr.entities[i].pos =
              mon[NextTeleport(TeleportUnder(i, mon), mon)].pos
        /\ Cardinality(Teleports(mon)) = 1 =>
              tr.entities[i].pos = mon[i].pos
        /\ Cardinality(Teleports(mon)) = 2 =>
              \E b \in Teleports(mon) \ {TeleportUnder(i, mon)} :
                  tr.entities[i].pos = mon[b].pos

\* C10 for the monster phase result mon of one turn
TeleportCycleTurn(mon) ==
    (mon.took_turn /\ mon.fault = "none") =>
        \A rnd \in [1 .. BumpDraws(mon.entities) -> Offsets] :
            TeleportCycleOf(mon.entities,
                            resolve_traps(mon.entities, map, rnd))

\* C10: an entity standing on a Teleport trap at trap resolution is moved
\* to the position of the next Teleport trap in store order, wrapping
\* cyclically and skipping the trap it stands on; with exactly two
\* Teleport traps A and B, stepping on A moves to B and stepping on B
\* moves to A; with a single Teleport trap the position is unchanged.
TeleportCycle ==
    InPlay =>
        \A keys \in SUBSET Keys :
            TeleportCycleTurn(MonsterPhase(entities, map, keys))

\* a turn in which a Teleport trap fired has left the player on the first
\* of three Teleport traps: the search wrapped past the end of the store
TeleportCycleWitness ==
    /\ fault = "none" /\ last.op = "playing" /\ "Teleport" \in last.traps
    /\ Cardinality(Teleports(entities)) = 3
    /\ entities[1].pos = entities[MinIndex(Teleports(entities))].pos

\* C11 for the store mon the monster phase left and the result tr of
\* resolve_traps on it: a visited CountDown(n) trap with n > 0 becomes
\* CountDown(n - 1) and its visitors keep their hit points; a visited
\* CountDown(0) trap stays CountDown(0) and each visitor loses 5
CountDownDecayOf(mon, tr) ==
    \A i \in ScannedOn({"CountDown"}, mon) :
        LET t == TrapOf(i, mon)
            n == mon[t].typ.n
        IN  /\ tr.fault = "none"
            /\ tr.entities[t].pos = mon[t].pos
            /\ tr.entities[t].typ =
                  TrapTyp("CountDown", IF n = 0 THEN 0 ELSE n - 1)
            /\ tr.entities[i].typ =
                  [mon[i].typ EXCEPT
                     !.hp = @ - (IF n = 0 THEN TRAP_DAMAGE ELSE 0)]

\* C11 for the monster phase result mon of one turn
CountDownDecayTurn(mon) ==
    (mon.took_turn /\ mon.fault = "none") =>
        \A rnd \in [1 .. BumpDraws(mon.entities) -> Offsets] :
            CountDownDecayOf(mon.entities,
                             resolve_traps(mon.entities, map, rnd))

\* C11: a Countdown(2) trap becomes Countdown(1) and then Countdown(0) on
\* successive visits by any entity, dealing no damage on those visits;
\* every visit at 0 deals exactly 5 damage to the visiting entity, and the
\* trap stays in the store with its counter at 0.
CountDownDecay ==
    InPlay =>
        \A keys \in SUBSET Keys :
            CountDownDecayTurn(MonsterPhase(entities, map, keys))

\* the CountDown(2) trap of the level has counted down to 0, and the visit
\* of the latest turn has cost the player 5 hit points
CountDownDecayWitness ==
    /\ fault = "none" /\ last.op = "playing" /\ "CountDown" \in last.traps
    /\ \E t \in 1 .. Len(entities) :
          /\ entities[t].typ.trap = "CountDown" /\ entities[t].typ.n = 0
          /\ entities[1].pos = entities[t].pos
    /\ entities[1].typ.hp <= PLAYER_HP - TRAP_DAMAGE

\* tile t neither blocks nor holds a player or monster of the store ents
Passable(t, ents, m) ==
    /\ ~blocked_tile(t, m)
    /\ \A j \in NonTraps(ents) : ents[j].pos # t

\* the tile k steps from pos in direction d
Ahead(pos, d, k) == <<pos[1] + k * d[1], pos[2] + k * d[2]>>

\* the numbers of steps a slide from pos in direction d can make: every
\* tile on the way is passable
SlideSteps(pos, d, ents, m) ==
    {k \in 0 .. MAP_WIDTH + MAP_HEIGHT :
        \A j \in 1 .. k : Passable(Ahead(pos, d, j), ents, m)}

\* the greatest of a non-empty set of numbers
MaxOf(S) == CHOOSE k \in S : \A j \in S : j <= k

\* C12 for the store mon the monster phase left and the result tr of
\* resolve_traps on it
ArrowSlideOf(mon, tr, m) ==
    \A i \in ScannedOn(ArrowKinds, mon) :
        LET d == ArrowDir(TrapKindOf(i, mon))
            k == MaxOf(SlideSteps(mon[i].pos, d, mon, m))
        IN  /\ tr.fault = "none"
            /\ tr.entities[i].typ = mon[i].typ
            /\ tr.entities[i].pos = Ahead(mon[i].pos, d, k)
            /\ ~blocked_tile(tr.entities[i].pos, m)
            /\ ~Passable(Ahead(mon[i].pos, d, k + 1), mon, m)

\* C12 for the monster phase result mon of one turn
ArrowSlideTurn(mon) ==
    (mon.took_turn /\ mon.fault = "none") =>
        \A rnd \in [1 .. BumpDraws(mon.entities) -> Offsets] :
            ArrowSlideOf(mon.entities,
                         resolve_traps(mon.entities, map, rnd), map)

\* C12: an entity on an Arrow(d) trap ends the turn on the last tile in
\* direction d reachable by stepping one tile at a time over tiles that
\* are non-blocking and hold no non-trap entity (tiles holding only traps
\* are passed through); it never ends on or beyond a blocking tile, and a
\* non-trap occupant in the path halts the slide on the tile before it.
ArrowSlideEnd ==
    InPlay =>
        \A keys \in SUBSET Keys :
            ArrowSlideTurn(MonsterPhase(entities, map, keys))

\* the latest turn slid the player two tiles from an Arrow trap, over a
\* tile that holds another trap
ArrowSlideEndWitness ==
    /\ fault = "none" /\ last.op = "playing"
    /\ \E a \in 1 .. Len(entities) :
          /\ entities[a].typ.trap \in ArrowKinds \cap last.traps
          /\ entities[1].pos =
                Ahead(entities[a].pos, ArrowDir(entities[a].typ.trap), 2)
          /\ trap_tile(Ahead(entities[a].pos,
                              ArrowDir(entities[a].typ.trap), 1),
                        entities) # 0

\* the tile the keys pressed lead the player to from pos
Candidate(pos, keys) ==
    <<pos[1] - (IF "Left" \in keys THEN 1 ELSE 0)
             + (IF "Right" \in keys THEN 1 ELSE 0),
      pos[2] - (IF "Up" \in keys THEN 1 ELSE 0)
             + (IF "Down" \in keys THEN 1 ELSE 0)>>

\* C13 for one key set: the whole update changes nothing
TurnGatingOf(keys, r) ==
    /\ r.fault = "none"
    /\ r.game_state = game_state
    /\ r.entities = entities
    /\ ~r.next_level /\ ~r.win

\* C13: when the player's candidate tile blocks, the move is reverted and
\* no turn is taken: the player's position, every monster's position and
\* hit points, every trap, the animation states and the level state are
\* unchanged by that update; monsters and traps act only in updates where
\* a move was accepted.
TurnGating ==
    InPlay =>
        \A keys \in SUBSET Keys :
            (keys = {} \/ blocked_tile(Candidate(entities[1].pos, keys), map))
               => TurnGatingOf(keys,
                     update_playing(game_state, entities, map, keys, <<>>))

\* the latest update read a pressed direction key and took no turn, with
\* a monster still alive in the store
TurnGatingWitness ==
    /\ fault = "none" /\ game_state.st = "Playing"
    /\ last.op = "playing" /\ last.pressed /\ ~last.took_turn
    /\ \E i \in 1 .. Len(entities) : is_monster(entities[i].typ)

\* the kind of the trap on tile q of the store ents, "-" when none
TrapAt(q, ents) ==
    IF trap_tile(q, ents) = 0 THEN "-" ELSE ents[trap_tile(q, ents)].typ.trap

\* the store with the player on tile q
PlayerAt(q, ents) == [ents EXCEPT ![1].pos = q]

\* the tile the monster at index i is on after the monster phase of a turn
\* that moved the player to q
MonsterTile(i, q, ents, m) ==
    MonsterMove(ents[i], PlayerAt(q, ents)[1], PlayerAt(q, ents), m).entity.pos

\* the hit points the player keeps in a turn that moves it to q: one less
\* per monster attacking it on q, five less on a Kill trap
HpAfterTurn(q, ents, m) ==
    ents[1].typ.hp
      - Cardinality(Attackers(PlayerAt(q, ents), m))
      - (IF TrapAt(q, ents) = "Kill" THEN TRAP_DAMAGE ELSE 0)

\* the level state the turn ends in
StateAfterTurn(gs, q, ents, m) ==
    IF HpAfterTurn(q, ents, m) <= 0 THEN Lost
    ELSE IF TrapAt(q, ents) = "NextLevel" THEN NextLevel(gs.n)
    ELSE IF TrapAt(q, ents) = "Win" THEN Win
    ELSE gs

\* C14 for the result r of the turn that moves the player to tile q
PhaseOrderOf(q, r) ==
    /\ r.fault = "none"
    /\ r.entities[1].typ.hp = HpAfterTurn(q, entities, map)
    /\ r.game_state = StateAfterTurn(game_state, q, entities, map)
    /\ TrapAt(q, entities) \notin (ArrowKinds \cup {"Bump"}) =>
          r.entities[1].pos = q
    /\ Cardinality({j \in 1 .. Len(r.entities) :
                       is_monster(r.entities[j].typ)}) =
          Cardinality({i \in 1 .. Len(entities) :
                         /\ is_monster(entities[i].typ)
                         /\ TrapAt(MonsterTile(i, q, entities, map),
                                   entities) # "Kill"})
    /\ \A j \in 1 .. Len(r.entities) :
          is_monster(r.entities[j].typ) => r.entities[j].typ.hp > 0

\* C14: within one accepted turn the phases run exactly once each in the
\* order player move, monster movement and combat, trap resolution,
\* removal and loss/level check; monsters decide against the player's
\* post-move position and trap effects are decided against the
\* post-monster-move positions.
PhaseOrdering ==
    InPlay =>
        \A keys \in (SUBSET Keys) \ {{}} :
            ~blocked_tile(Candidate(entities[1].pos, keys), map) =>
                \A rnd \in [1 .. BumpDraws(
                                    MonsterPhase(entities, map, keys).entities)
                             -> Offsets] :
                    PhaseOrderOf(Candidate(entities[1].pos, keys),
                                 update_playing(game_state, entities, map,
                                                keys, rnd))

\* in the latest turn the player moved, a monster attacked it on the tile
\* it had moved to, a Kill trap fired after that, and the loss check ended
\* the game
PhaseOrderingWitness ==
    /\ fault = "none" /\ last.op = "playing" /\ last.took_turn
    /\ last.attacks >= 1 /\ "Kill" \in last.traps
    /\ game_state = Lost

\* the scanned entities of the store mon that a trap of the store leaves
\* no destination: on the only Teleport trap, or on an Arrow trap whose
\* next tile blocks or holds a player or monster
NoDestination(mon, m) ==
    {i \in ScannedOn({"Teleport"}, mon) : Cardinality(Teleports(mon)) = 1}
    \cup
    {i \in ScannedOn(ArrowKinds, mon) :
        ~Passable(Ahead(mon[i].pos, ArrowDir(TrapKindOf(i, mon)), 1), mon, m)}

\* C15 for the monster phase result mon of one accepted turn
BoundaryTrapsTurn(mon) ==
    (mon.took_turn /\ mon.fault = "none") =>
        \A rnd \in [1 .. BumpDraws(mon.entities) -> Offsets] :
            /\ resolve_traps(mon.entities, map, rnd).fault = "none"
            /\ \A i \in NoDestination(mon.entities, map) :
                  resolve_traps(mon.entities, map, rnd).entities[i].pos =
                     mon.entities[i].pos

\* C15 for the result r of an update in which the keys move the player
\* into a blocking tile
BoundaryMoveOf(r) ==
    /\ r.fault = "none"
    /\ r.entities[1].pos = entities[1].pos

\* C15: boundary conditions never fault: a player move into a wall or
\* toward outside the grid, an entity on the only Teleport trap of a level,
\* and an entity on an Arrow trap whose next tile is blocked or occupied
\* each leave that entity's position unchanged and complete the update
\* without any fault.
BoundaryNoFault ==
    InPlay =>
        \A keys \in SUBSET Keys :
            /\ BoundaryTrapsTurn(MonsterPhase(entities, map, keys))
            /\ (keys # {}
                  /\ (blocked_tile(Candidate(entities[1].pos, keys), map)
                        \/ Candidate(entities[1].pos, keys) \notin Grid)) =>
                  \A rnd \in [1 .. BumpDraws(entities) -> Offsets] :
                      BoundaryMoveOf(update_playing(game_state, entities,
                                                    map, keys, rnd))

\* the latest turn left the player on the Arrow trap it had stepped on:
\* the tile next to the trap in its direction is a border tile
BoundaryNoFaultWitness ==
    /\ fault = "none" /\ last.op = "playing" /\ last.took_turn
    /\ \E a \in 1 .. Len(entities) :
          /\ entities[a].typ.trap \in ArrowKinds \cap last.traps
          /\ entities[1].pos = entities[a].pos
          /\ blocked_tile(Ahead(entities[a].pos,
                                 ArrowDir(entities[a].typ.trap), 1), map)

\* the Arrow loop of the entity at index i of the store mon ends: some tile
\* ahead of it on the grid blocks or holds a player or monster
SlideEnds(i, mon, m) ==
    \E j \in 1 .. MAP_WIDTH + MAP_HEIGHT :
        /\ \A k \in 1 .. j :
              Ahead(mon[i].pos, ArrowDir(TrapKindOf(i, mon)), k) \in Grid
        /\ ~Passable(Ahead(mon[i].pos, ArrowDir(TrapKindOf(i, mon)), j),
                      mon, m)

\* C16 for the monster phase result mon of one accepted turn
TurnTerminationOf(mon) ==
    mon.took_turn =>
        /\ mon.fault = "none"
        /\ \A i \in ScannedOn(ArrowKinds, mon.entities) :
              SlideEnds(i, mon.entities, map)
        /\ \A rnd \in [1 .. BumpDraws(mon.entities) -> Offsets] :
              AfterMonsters(game_state, mon, map, rnd).fault = "none"

\* C16: from every reachable state, an accepted turn runs to completion:
\* the monster pass, the trap scan (including the Arrow slide loop and the
\* Teleport search) and the removal pass all terminate and the update
\* returns.
TurnTermination ==
    InPlay =>
        \A keys \in SUBSET Keys :
            TurnTerminationOf(MonsterPhase(entities, map, keys))

\* the latest turn ran a monster pass with an attack and an Arrow slide,
\* and the update returned
TurnTerminationWitness ==
    /\ fault = "none" /\ last.op = "playing" /\ last.took_turn
    /\ last.traps \cap ArrowKinds # {}
    /\ last.attacks >= 1

\* C17 for the store mon the monster phase left and the result tr of
\* resolve_traps on it
BerserkOf(mon, tr) ==
    \A i \in ScannedOn({"Berserk"}, mon) :
        tr.entities[i].typ.status = "Berserk"

\* C17 for the monster phase result mon of one turn
BerserkTurn(mon) ==
    (mon.took_turn /\ mon.fault = "none") =>
        \A rnd \in [1 .. BumpDraws(mon.entities) -> Offsets] :
            BerserkOf(mon.entities, resolve_traps(mon.entities, map, rnd))

Border ==
    {t \in Grid : \/ t[1] = 0 \/ t[1] = MAP_WIDTH - 1
                  \/ t[2] = 0 \/ t[2] = MAP_HEIGHT - 1}

\* C18: in the initial level and in every regenerated level, every tile
\* on the grid border (x = 0, x = width-1, y = 0 or y = height-1) has
\* blocks = true.
BorderInvariant == \A t \in Border : map[t]

\* a level has been regenerated, and one of its wall segments was drawn
\* onto a border tile
BorderInvariantWitness ==
    /\ last.op = "next" /\ game_state.st = "Playing" /\ game_state.n >= 1
    /\ \E t \in Border : \E lay \in Layouts :
          /\ map = generate_map(lay.plan)
          /\ \E k \in 1 .. Len(lay.plan) : SegmentTiles(t, lay.plan[k])

\* the store with the entities at indices i and j exchanged
Swapped(ents, i, j) == [ents EXCEPT ![i] = ents[j], ![j] = ents[i]]

\* the index in Swapped(ents, i, j) of the entity at index k of ents
SwappedIndex(k, i, j) == IF k = i THEN j ELSE IF k = j THEN i ELSE k

\* C19 for the snapshot ents and the ordering that exchanges i and j:
\* a is the result of update_monsters on ents, b on the reordered store
SameResolution(ents, i, j, a, b) ==
    /\ a.fault = b.fault
    /\ Len(a.entities) = Len(b.entities)
    /\ Len(a.attacks) = Len(b.attacks)
    /\ a.entities[1].typ.hp = b.entities[1].typ.hp
    /\ \A k \in 2 .. Len(ents) :
          (is_monster(ents[k].typ) /\ Len(a.entities) = Len(ents)) =>
              b.entities[SwappedIndex(k, i, j)].pos = a.entities[k].pos

\* C19 for the snapshot ents the player's move left
OrderIndependenceOf(ents) ==
    \A i, j \in 2 .. Len(ents) :
        i < j =>
            SameResolution(ents, i, j, update_monsters(ents, map),
                           update_monsters(Swapped(ents, i, j), map))

Consumed(mon) == {TrapOf(i, mon) : i \in ScannedOn({"Kill"}, mon)}

\* C20 for the store mon the monster phase left and the result tr of
\* resolve_traps on it
RemovalPrecisionOf(mon, tr) ==
    Consumed(mon) # {} =>
        /\ tr.fault = "none"
        /\ Len(tr.entities) = Len(mon) - Cardinality(Consumed(mon))
        /\ \A t \in Consumed(mon) :
              \A j \in 1 .. Len(tr.entities) :
                  ~(is_trap(tr.entities[j].typ)
                    /\ tr.entities[j].pos = mon[t].pos)
        /\ \A t \in (1 .. Len(mon)) \ Consumed(mon) :
              \E j \in 1 .. Len(tr.entities) :
                  /\ tr.entities[j].typ.k = mon[t].typ.k
                  /\ tr.entities[j].typ.mtyp = mon[t].typ.mtyp
                  /\ tr.entities[j].typ.trap = mon[t].typ.trap
                  /\ is_trap(mon[t].typ) => tr.entities[j].pos = mon[t].pos

\* C20 for the monster phase result mon of one turn
RemovalPrecisionTurn(mon) ==
    (mon.took_turn /\ mon.fault = "none") =>
        \A rnd \in [1 .. BumpDraws(mon.entities) -> Offsets] :
            RemovalPrecisionOf(mon.entities,
                               resolve_traps(mon.entities, map, rnd))

\* C20: in a turn that schedules one or more removals, exactly the
\* consumed Kill trap entities are removed by trap resolution; every other
\* entity (the player, monsters, other traps including the NextLevel/Win
\* exit trap) is still in the store afterwards, and no store index is
\* accessed out of range.
RemovalPrecision ==
    InPlay =>
        \A keys \in SUBSET Keys :
            RemovalPrecisionTurn(MonsterPhase(entities, map, keys))

\* the hit points the trap on tile q of the store ents takes from an
\* entity that stands on it at trap resolution
TrapDamageAt(q, ents) ==
    IF \/ TrapAt(q, ents) = "Kill"
       \/ (TrapAt(q, ents) = "CountDown" /\ ents[trap_tile(q, ents)].typ.n = 0)
    THEN TRAP_DAMAGE ELSE 0

\* the traps of the store ents under no player or monster of it
Unvisited(ents) ==
    {t \in 1 .. Len(ents) :
        /\ is_trap(ents[t].typ)
        /\ \A i \in Scanned(ents) : ents[i].pos # ents[t].pos}

\* C21 for the store mon the monster phase left and the result tr of
\* resolve_traps on it
NoCascadeOf(mon, tr, m) ==
    /\ tr.fault = "none"
    /\ \A i \in Scanned(mon) :
          /\ tr.entities[i].typ.k = mon[i].typ.k
          /\ tr.entities[i].typ.hp =
                mon[i].typ.hp - TrapDamageAt(mon[i].pos, mon)
          /\ TrapAt(mon[i].pos, mon)
                \notin ({"Teleport", "Bump"} \cup ArrowKinds) =>
                tr.entities[i].pos = mon[i].pos
          /\ TrapAt(mon[i].pos, mon) \in ArrowKinds =>
                tr.entities[i].pos =
                   Ahead(mon[i].pos, ArrowDir(TrapAt(mon[i].pos, mon)),
                         MaxOf(SlideSteps(mon[i].pos,
                                          ArrowDir(TrapAt(mon[i].pos, mon)),
                                          mon, m)))
    /\ tr.next_level = (TrapAt(mon[1].pos, mon) = "NextLevel")
    /\ tr.win = (TrapAt(mon[1].pos, mon) = "Win")
    /\ \A t \in Unvisited(mon) :
          mon[t].typ.trap \in {"Kill", "CountDown"} =>
              \E j \in 1 .. Len(tr.entities) : tr.entities[j] = mon[t]

\* C21 for the monster phase result mon of one turn
NoCascadeTurn(mon) ==
    (mon.took_turn /\ mon.fault = "none") =>
        \A rnd \in [1 .. BumpDraws(mon.entities) -> Offsets] :
            NoCascadeOf(mon.entities,
                        resolve_traps(mon.entities, map, rnd), map)

\* C21: in one turn each player or monster receives the effect of at most
\* one trap, the trap on the tile it occupies after monster movement; an
\* entity moved by Teleport, Bump or Arrow onto another trap tile does not
\* trigger that trap in the same turn, and no trap effect is computed from
\* another entity's trap-induced move of that turn.
NoCascade ==
    InPlay =>
        \A keys \in SUBSET Keys :
            NoCascadeTurn(MonsterPhase(entities, map, keys))

\* the latest turn fired a trap that moves entities and no Kill trap, and
\* left the player on a Kill trap: the player got there by the trap's move
\* and the Kill trap did not fire
NoCascadeWitness ==
    /\ fault = "none" /\ last.op = "playing" /\ last.took_turn
    /\ last.traps \cap ({"Bump"} \cup ArrowKinds) # {}
    /\ "Kill" \notin last.traps
    /\ TrapAt(entities[1].pos, entities) = "Kill"

\* the monsters of the store ents
Monsters(ents) == {k \in 1 .. Len(ents) : is_monster(ents[k].typ)}

\* C22 for the snapshot ents the player's move left and the result r of
\* update_monsters on it
MonsterBlockingOf(ents, r) ==
    /\ r.fault = "none"
    /\ Len(r.entities) = Len(ents)
    /\ \A k \in Monsters(ents) :
          (\E l \in Monsters(ents) \ {k} :
              ents[l].pos = MonsterTarget(ents[k], ents[1], map)) =>
              r.entities[k].pos = ents[k].pos
    /\ \A k, l \in Monsters(ents) :
          (k # l /\ ents[k].pos # ents[l].pos) =>
              ~(/\ r.entities[k].pos = ents[l].pos
                /\ r.entities[l].pos = ents[k].pos)

Sign(v) == IF v > 0 THEN 1 ELSE IF v < 0 THEN -1 ELSE 0

\* the unit step from tile a toward tile b
UnitStep(a, b) == <<Sign(b[1] - a[1]), Sign(b[2] - a[2])>>

\* C23 for the snapshot ents the player's move left
GolStepOf(ents) ==
    \A k \in Monsters(ents) :
        ents[k].typ.mtyp = "Gol" =>
            MonsterTarget(ents[k], ents[1], map) =
               VAdd(ents[k].pos, UnitStep(ents[k].pos, ents[1].pos))

\* C23: each turn a Gol's attempted destination is its position plus
\* (sign(player.x - monster.x), sign(player.y - monster.y)) with
\* sign(0) = 0, so a Gol that shares a row or column with the player keeps
\* that coordinate and steps orthogonally toward the player.
GolStep ==
    InPlay =>
        \A keys \in SUBSET Keys :
            update_player(entities, keys, map).took_turn =>
                GolStepOf(update_player(entities, keys, map).entities)

\* the destinations C24 allows a Rook at a with the player at b, both
\* coordinates different: one tile along an axis with the larger absolute
\* distance if that tile does not block, otherwise one tile along the
\* other axis
RookAxisChoices(a, b, m) ==
    LET along_x == <<a[1] + Sign(b[1] - a[1]), a[2]>>
        along_y == <<a[1], a[2] + Sign(b[2] - a[2])>>
    IN  (IF Abs(b[1] - a[1]) >= Abs(b[2] - a[2])
         THEN {IF ~blocked_tile(along_x, m) THEN along_x ELSE along_y}
         ELSE {})
        \cup
        (IF Abs(b[2] - a[2]) >= Abs(b[1] - a[1])
         THEN {IF ~blocked_tile(along_y, m) THEN along_y ELSE along_x}
         ELSE {})

\* C24 for the snapshot ents the player's move left
RookAxisChoiceOf(ents) ==
    \A k \in Monsters(ents) :
        (/\ is_rook(ents[k].typ)
         /\ ents[k].pos[1] # ents[1].pos[1]
         /\ ents[k].pos[2] # ents[1].pos[2]) =>
            MonsterTarget(ents[k], ents[1], map)
               \in RookAxisChoices(ents[k].pos, ents[1].pos, map)

\* C24: when a Rook's unconstrained step toward the player would be
\* diagonal, the Rook steps one tile along the axis with the larger
\* absolute distance to the player if that single-axis destination is not
\* blocked, and otherwise one tile along the other axis.
RookAxisChoice ==
    InPlay =>
        \A keys \in SUBSET Keys :
            update_player(entities, keys, map).took_turn =>
                RookAxisChoiceOf(update_player(entities, keys, map).entities)

\* the number of tiles between a and b, counted along the axes
AxisDistance(a, b) == Abs(a[1] - b[1]) + Abs(a[2] - b[2])

\* C25: every accepted turn changes the player's position by exactly one
\* tile along exactly one axis, whatever combination of direction keys is
\* pressed in that frame: there is no diagonal player step and no accepted
\* turn in which the player's position is unchanged.
PlayerSingleStep ==
    InPlay =>
        \A keys \in SUBSET Keys :
            update_player(entities, keys, map).took_turn =>
                AxisDistance(update_player(entities, keys, map).entities[1].pos,
                             entities[1].pos) = 1

ExitTrapsOf(mon, tr, r) ==
    /\ \A i \in ScannedOn({"NextLevel", "Win"}, mon) :
          is_monster(mon[i].typ) => tr.entities[i] = mon[i]
    /\ tr.next_level => TrapAt(mon[1].pos, mon) = "NextLevel"
    /\ tr.win => TrapAt(mon[1].pos, mon) = "Win"
    /\ r.game_state.st = "NextLevel" => TrapAt(mon[1].pos, mon) = "NextLevel"
    /\ r.game_state.st = "Win" => TrapAt(mon[1].pos, mon) = "Win"

\* C27 for the monster phase result mon of one update
ExitTrapsTurn(mon) ==
    \A rnd \in [1 .. (IF mon.took_turn /\ mon.fault = "none"
                      THEN BumpDraws(mon.entities) ELSE 0) -> Offsets] :
        IF mon.took_turn /\ mon.fault = "none"
        THEN ExitTrapsOf(mon.entities,
                         resolve_traps(mon.entities, map, rnd),
                         AfterMonsters(game_state, mon, map, rnd))
        ELSE AfterMonsters(game_state, mon, map, rnd).game_state.st
                \notin {"NextLevel", "Win"}

\* C27: a monster standing on a NextLevel or Win trap raises no signal and
\* is otherwise unaffected; the level state leaves Playing for NextLevel or
\* Win only in a turn where the player itself stands on the corresponding
\* trap at trap resolution.
ExitTrapsPlayerOnly ==
    InPlay =>
        \A keys \in SUBSET Keys :
            ExitTrapsTurn(MonsterPhase(entities, map, keys))

\* the scan of the latest turn found a monster on the exit trap, which is
\* still there, and no signal was raised
ExitTrapsPlayerOnlyWitness ==
    /\ fault = "none" /\ last.op = "playing" /\ last.took_turn
    /\ last.traps \cap {"NextLevel", "Win"} # {}
    /\ ~last.next_level /\ ~last.win
    /\ game_state.st = "Playing"
    /\ \E k \in Monsters(entities) :
          TrapAt(entities[k].pos, entities) \in {"NextLevel", "Win"}

\* the direction C28 names for a movement vector along one axis
AxisDirection(v) ==
    CASE v = <<1, 0>> -> "Right"
      [] v = <<-1, 0>> -> "Left"
      [] v = <<0, -1>> -> "Up"
      [] v = <<0, 1>> -> "Down"

\* C28 for the snapshot ents the player's move left, the result r of
\* update_monsters on it and the result tr of resolve_traps on r
AttackAnimationOf(ents, r, tr) ==
    /\ r.fault = "none" /\ tr.fault = "none"
    /\ Len(r.entities) = Len(ents)
    /\ {r.attacks[a][1] : a \in 1 .. Len(r.attacks)} = Attackers(ents, map)
    /\ \A k \in 1 .. Len(ents) :
          IF k \in Attackers(ents, map)
          THEN LET v == VSub(MonsterTarget(ents[k], ents[1], map), ents[k].pos)
               IN  /\ r.entities[k].anim_state.s = "Attacking"
                   /\ r.entities[k].anim_state.frame = 0
                   /\ r.entities[k].anim_state.dir = direction(v)
                   /\ v \in {<<1, 0>>, <<-1, 0>>, <<0, -1>>, <<0, 1>>} =>
                         r.entities[k].anim_state.dir = AxisDirection(v)
          ELSE r.entities[k].anim_state = ents[k].anim_state
    /\ \A i \in Scanned(r.entities) :
          tr.entities[i].anim_state = r.entities[i].anim_state
    /\ \A j \in 1 .. Len(tr.entities) :
          is_trap(tr.entities[j].typ) =>
              \E t \in 1 .. Len(ents) :
                  /\ is_trap(ents[t].typ)
                  /\ ents[t].pos = tr.entities[j].pos
                  /\ ents[t].anim_state = tr.entities[j].anim_state

\* C28 for the snapshot ents and the result r of update_monsters on it
AttackAnimationDraws(ents, r) ==
    \A rnd \in [1 .. BumpDraws(r.entities) -> Offsets] :
        AttackAnimationOf(ents, r, resolve_traps(r.entities, map, rnd))

\* C28 for the result p of update_player
AttackAnimationTurn(p) ==
    p.took_turn =>
        AttackAnimationDraws(p.entities, update_monsters(p.entities, map))

DeadMonstersRemoved ==
    fault = "none" =>
        \A k \in Monsters(entities) : entities[k].typ.hp > 0

\* in the latest turn a Kill trap fired under a monster: the player is
\* alive and the monster is no longer in the store
DeadMonstersRemovedWitness ==
    /\ fault = "none" /\ last.op = "playing" /\ last.took_turn
    /\ "Kill" \in last.traps
    /\ entities[1].typ.hp = PLAYER_HP
    /\ Cardinality(Monsters(entities)) = 1

\* the entity e is as its constructor makes it, on the tile it stands on
Fresh(e) ==
    \/ e = EntityGol(e.pos)
    \/ e = EntityRook(e.pos)
    \/ is_trap(e.typ) /\ e = EntityTrap(e.pos, e.typ.trap, 0)

\* C30: when NextLevel(k) is processed with k < NUM_LEVEL_GAME, the player
\* entity stays at index 0 with HP, max HP and status unchanged, every
\* other entity of the old level is discarded, and the new grid and
\* entities are generated with all entities (player included) on pairwise
\* distinct non-blocking tiles.
LevelTransitionKeepsPlayer ==
    [][(/\ fault = "none"
        /\ game_state.st = "NextLevel"
        /\ game_state.n < NUM_LEVEL_GAME) =>
          /\ fault' = "none"
          /\ is_player(entities'[1].typ)
          /\ entities'[1].typ = entities[1].typ
          /\ Len(entities') = 13
          /\ \A j \in 2 .. Len(entities') : Fresh(entities'[j])
          /\ Cardinality(Monsters(entities')) = 2
          /\ \A i \in 1 .. Len(entities') :
                /\ entities'[i].pos \in Grid
                /\ ~map'[entities'[i].pos]
          /\ \A i, j \in 1 .. Len(entities') :
                i # j => entities'[i].pos # entities'[j].pos]_vars

\* a level has been regenerated for a player that had lost hit points in
\* the level before
LevelTransitionKeepsPlayerWitness ==
    /\ fault = "none" /\ last.op = "next"
    /\ game_state.st = "Playing" /\ game_state.n >= 1
    /\ entities[1].typ.hp < PLAYER_HP
    /\ Len(entities) = 13

\* the traps of the store ents
Traps(ents) == {t \in 1 .. Len(ents) : is_trap(ents[t].typ)}

\* the trap b is the trap a, unchanged or with its CountDown counter one
\* lower
SameTrap(a, b) ==
    \/ b = a
    \/ /\ a.typ.trap = "CountDown" /\ b.typ.trap = "CountDown"
       /\ b.pos = a.pos /\ b.typ.n = a.typ.n - 1

\* C31: no turn changes any tile's blocks flag, and no turn changes the
\* position of a trap entity; a trap's kind changes only by a Countdown
\* decrement and a trap leaves the store only by Kill consumption or level
\* regeneration.
StaticWorld ==
    [][(fault = "none" /\ game_state.st = "Playing") =>
          /\ map' = map
          /\ \A j \in Traps(entities') :
                \E t \in Traps(entities) : SameTrap(entities[t], entities'[j])
          /\ \A t \in Traps(entities) :
                \/ \E j \in Traps(entities') :
                      SameTrap(entities[t], entities'[j])
                \/ /\ entities[t].typ.trap = "Kill"
                   /\ "Kill" \in last'.traps]_vars

\* the number of the Bump draw the scan of the store mon makes for the
\* entity at index i
DrawNumber(i, mon) ==
    Cardinality({j \in ScannedOn({"Bump"}, mon) : j <= i})

\* the distance between the tiles a and b in king's moves
TileDistance(a, b) ==
    IF Abs(a[1] - b[1]) >= Abs(a[2] - b[2])
    THEN Abs(a[1] - b[1]) ELSE Abs(a[2] - b[2])

\* C32 for the store mon the monster phase left, the draws rnd and the
\* result tr of resolve_traps on them
BumpStepOf(mon, rnd, tr) ==
    \A i \in ScannedOn({"Bump"}, mon) :
        /\ TileDistance(tr.entities[i].pos, mon[i].pos) <= 1
        /\ ~blocked_tile(tr.entities[i].pos, map)
        /\ tr.entities[i].pos =
              IF blocked_tile(VAdd(mon[i].pos, rnd[DrawNumber(i, mon)]), map)
              THEN mon[i].pos
              ELSE VAdd(mon[i].pos, rnd[DrawNumber(i, mon)])

\* C32 for the monster phase result mon of one turn
BumpStepTurn(mon) ==
    (mon.took_turn /\ mon.fault = "none") =>
        \A rnd \in [1 .. BumpDraws(mon.entities) -> Offsets] :
            BumpStepOf(mon.entities, rnd,
                       resolve_traps(mon.entities, map, rnd))

\* C32: an entity on a Bump trap ends the turn either on its own tile or
\* on one of the eight neighbouring tiles (offset drawn from {-1,0,1} on
\* each axis), and never on a blocking tile: a blocked destination leaves
\* its position unchanged.
BumpStep ==
    InPlay =>
        \A keys \in SUBSET Keys :
            BumpStepTurn(MonsterPhase(entities, map, keys))

\* the Bump trap fired in the latest turn and the player stands on a tile
\* next to it, with no monster within one tile of the trap
BumpStepWitness ==
    /\ fault = "none" /\ last.op = "playing" /\ last.took_turn
    /\ "Bump" \in last.traps
    /\ \E b \in Traps(entities) :
          /\ entities[b].typ.trap = "Bump"
          /\ TileDistance(entities[1].pos, entities[b].pos) = 1
          /\ \A k \in Monsters(entities) :
                TileDistance(entities[k].pos, entities[b].pos) > 1

\* the entities of the store mon from which the scan of resolve_traps
\* deducts hit points (lines 1517 and 1559)
TrapHits(mon) ==
    {i \in ScannedOn({"Kill", "CountDown"}, mon) :
        TrapDamageAt(mon[i].pos, mon) > 0}

\* C33 for the monster phase result mon of one update: the defenders of
\* the attacks (lines 1383-1390), the entities the traps hit, and the entity
\* at player_id whose hit points the loss check reads (line 1006)
HpAccessTurn(mon) ==
    /\ mon.fault = "none"
    /\ \A i \in TrapHits(mon.entities) : ~is_trap(mon.entities[i].typ)
    /\ \A a \in 1 .. Len(mon.attacks) :
          /\ mon.attacks[a][2] \in 1 .. Len(mon.entities)
          /\ ~is_trap(mon.entities[mon.attacks[a][2]].typ)
    /\ \A rnd \in [1 .. (IF mon.took_turn THEN BumpDraws(mon.entities)
                          ELSE 0) -> Offsets] :
          LET r == AfterMonsters(game_state, mon, map, rnd)
          IN  /\ r.fault = "none"
              /\ Len(r.entities) >= 1
              /\ is_player(r.entities[1].typ)

\* C33: hit points are never read from or deducted from a trap entity: in
\* every reachable state the HP accessors and lose_hp are applied only to
\* the player or to monsters, so their fatal 'no HP' branches are
\* unreachable.
HpOnlyOnLiving ==
    InPlay =>
        \A keys \in SUBSET Keys :
            HpAccessTurn(MonsterPhase(entities, map, keys))

\* in the latest turn an attack deducted hit points from the player and
\* the loss check read them; the game goes on with every generated trap
\* in the store
HpOnlyOnLivingWitness ==
    /\ fault = "none" /\ last.op = "playing" /\ last.took_turn
    /\ last.attacks >= 1
    /\ game_state.st = "Playing"
    /\ entities[1].typ.hp < PLAYER_HP
    /\ Cardinality(Traps(entities)) = 10

\* C34: whenever the level state is Win, the entity store contains a Win
\* trap and the player's position equals that trap's position, so the
\* Win-state update finds the trap and does not move the player.
WinOnWinTrap ==
    (fault = "none" /\ game_state.st = "Win") =>
        /\ WinTrap(entities) # 0
        /\ is_player(entities[1].typ)
        /\ entities[1].pos = entities[WinTrap(entities)].pos

\* the exit traps of the store ents: its NextLevel and Win traps
ExitTraps(ents) ==
    {t \in Traps(ents) : ents[t].typ.trap \in {"NextLevel", "Win"}}

\* C35: the level stays completable: in every reachable state Playing(k)
\* the entity store contains exactly one exit trap, a NextLevel trap when
\* k < NUM_LEVEL_GAME and a Win trap when k = NUM_LEVEL_GAME.
LevelCompletable ==
    (fault = "none" /\ game_state.st = "Playing") =>
        /\ Cardinality(ExitTraps(entities)) = 1
        /\ \A t \in ExitTraps(entities) :
              entities[t].typ.trap =
                  (IF game_state.n = NUM_LEVEL_GAME THEN "Win"
                   ELSE "NextLevel")

\* the monsters that recorded an attack in the attacks vector
Recorded(attacks) == {attacks[a][1] : a \in 1 .. Len(attacks)}

\* C36 for the monster phase result mon of one update and the result r of
\* the update
DamageAccountingOf(mon, r) ==
    /\ r.fault = "none"
    /\ is_player(r.entities[1].typ)
    /\ r.entities[1].typ.hp =
          entities[1].typ.hp
            - (IF mon.took_turn
               THEN Cardinality(Recorded(mon.attacks))
                      + TrapDamageAt(mon.entities[1].pos, mon.entities)
               ELSE 0)

DamageAccountingTurn(mon) ==
    \A rnd \in [1 .. (IF mon.took_turn THEN BumpDraws(mon.entities)
                      ELSE 0) -> Offsets] :
        DamageAccountingOf(mon, AfterMonsters(game_state, mon, map, rnd))

\* C36: damage accounting: in one accepted turn the player's HP decreases
\* by exactly the number of monsters that recorded an attack on the player,
\* plus 5 if the player stands on a Kill trap or a Countdown(0) trap at
\* trap resolution, and by nothing else; in an update without an accepted
\* turn it does not change.
DamageAccounting ==
    InPlay =>
        \A keys \in SUBSET Keys :
            DamageAccountingTurn(MonsterPhase(entities, map, keys))

\* the latest turn left the player on a Countdown(0) trap with an attack
\* recorded, and the player lost more hit points than the attacks of a
\* turn can take
DamageAccountingWitness ==
    /\ fault = "none" /\ last.op = "playing" /\ last.took_turn
    /\ last.attacks >= 1
    /\ "CountDown" \in last.traps
    /\ TrapDamageAt(entities[1].pos, entities) = TRAP_DAMAGE
    /\ entities[1].typ.hp <= 0 - last.attacks
    /\ game_state = Lost

\* the hit points of every player and monster of ents are within max_hp
HpWithinMax(ents) ==
    \A i \in NonTraps(ents) : ents[i].typ.hp <= ents[i].typ.max_hp

\* the monster b of the new store is a monster of the old store ents with
\* no more hit points than it had
SameMonsterNoGain(ents, b) ==
    \E i \in Monsters(ents) :
        /\ ents[i].typ.mtyp = b.typ.mtyp
        /\ b.typ.max_hp = ents[i].typ.max_hp
        /\ b.typ.hp <= ents[i].typ.hp

\* C37: HP is monotone: the HP of the player and of every monster never
\* increases and never exceeds its max_hp, within a level and across level
\* transitions (the player's HP is carried over, not reset).
HpMonotone ==
    [][fault = "none" =>
          /\ HpWithinMax(entities) /\ HpWithinMax(entities')
          /\ is_player(entities'[1].typ)
          /\ entities'[1].typ.hp <= entities[1].typ.hp
          /\ entities'[1].typ.max_hp = entities[1].typ.max_hp
          /\ game_state.st # "NextLevel" =>
                \A j \in Monsters(entities') :
                    SameMonsterNoGain(entities, entities'[j])]_vars

\* in a level after the first, a turn took hit points from the player and
\* left both monsters in the store
HpMonotoneWitness ==
    /\ fault = "none" /\ last.op = "playing" /\ last.took_turn
    /\ last.attacks >= 1
    /\ game_state.st = "Playing" /\ game_state.n >= 1
    /\ entities[1].typ.hp < PLAYER_HP - 1
    /\ Cardinality(Monsters(entities)) = 2

\* the CountDown traps of the store ents
CountDownTraps(ents) ==
    {t \in Traps(ents) : ents[t].typ.trap = "CountDown"}

\* the players and monsters of the store ents on the tile of its trap t
Visitors(t, ents) == {i \in NonTraps(ents) : ents[i].pos = ents[t].pos}

\* C38 for the store mon the monster phase left and the result tr of
\* resolve_traps on it: a CountDown(n) trap with n > 0 and one or more
\* visitors is CountDown(n - 1) afterwards and shows the digit n - 1
CountDownOnceOf(mon, tr) ==
    \A t \in CountDownTraps(mon) :
        (Visitors(t, mon) # {} /\ mon[t].typ.n > 0) =>
            /\ tr.fault = "none"
            /\ tr.entities[t].typ = TrapTyp("CountDown", mon[t].typ.n - 1)
            /\ tr.entities[t].pos = mon[t].pos
            /\ tr.entities[t].glyph = 48 + (mon[t].typ.n - 1)

CountDownOnceTurn(mon) ==
    (mon.took_turn /\ mon.fault = "none") =>
        \A rnd \in [1 .. BumpDraws(mon.entities) -> Offsets] :
            CountDownOnceOf(mon.entities,
                            resolve_traps(mon.entities, map, rnd))

\* the CountDown trap b of the new store is a CountDown trap of the old
\* store ents whose counter was not lower and at most one higher
CountDownStep(ents, b) ==
    \E t \in CountDownTraps(ents) :
        /\ ents[t].pos = b.pos
        /\ b.typ.n <= ents[t].typ.n
        /\ b.typ.n >= ents[t].typ.n - 1

\* C38: Countdown counter bounds: a Countdown trap's counter never
\* increases and never wraps below 0; in a turn where one or more entities
\* stand on a Countdown(n) trap with n > 0 the counter becomes exactly n-1,
\* however many entities stand on it, and its glyph shows the new value.
CountDownBounds ==
    /\ [](InPlay =>
             \A keys \in SUBSET Keys :
                 CountDownOnceTurn(MonsterPhase(entities, map, keys)))
    /\ [][InPlay =>
             \A j \in CountDownTraps(entities') :
                 /\ entities'[j].typ.n \in 0 .. 255
                 /\ entities'[j].glyph = 48 + entities'[j].typ.n
                 /\ CountDownStep(entities, entities'[j])]_vars

\* in the latest turn the player and a monster stood on the CountDown trap
\* together, and its counter is 1: it went from 2 to 1 in a turn with two
\* visitors, or had done so before
CountDownBoundsWitness ==
    /\ fault = "none" /\ last.op = "playing" /\ last.took_turn
    /\ "CountDown" \in last.traps
    /\ \E t \in CountDownTraps(entities) :
          /\ entities[t].typ.n = 1
          /\ Cardinality(Visitors(t, entities)) >= 2

\* the level state gs carries a level index
Indexed(gs) == gs.st \in {"Playing", "NextLevel"}

\* C39: level index bounds: in every reachable state Playing(k) or
\* NextLevel(k), 0 <= k <= NUM_LEVEL_GAME, the index never decreases, and
\* it increases by exactly 1 per processed next-level signal.
LevelIndexBounds ==
    [][fault = "none" =>
          /\ Indexed(game_state) => game_state.n \in 0 .. NUM_LEVEL_GAME
          /\ Indexed(game_state') => game_state'.n \in 0 .. NUM_LEVEL_GAME
          /\ (Indexed(game_state) /\ Indexed(game_state')) =>
                game_state'.n =
                    (IF game_state.st = "NextLevel" /\ game_state'.st = "Playing"
                     THEN game_state.n + 1 ELSE game_state.n)
          /\ game_state.st = "NextLevel" =>
                game_state'.st \in {"Playing", "Win"}]_vars

\* the last level has been entered by processing the fourth next-level
\* signal
LevelIndexBoundsWitness ==
    /\ fault = "none" /\ last.op = "next"
    /\ game_state = Playing(NUM_LEVEL_GAME)
    /\ WinTrap(entities) # 0

\* the monster b of the store trap resolution left is a monster of the
\* store mon it started on, with its hit points, or with TRAP_DAMAGE less
\* when it stood on a Kill or a CountDown(0) trap
MonsterHpBy(mon, b) ==
    \E i \in Monsters(mon) :
        /\ mon[i].typ.mtyp = b.typ.mtyp
        /\ b.typ.hp = mon[i].typ.hp - TrapDamageAt(mon[i].pos, mon)

\* C40 for the store ents the player's move left and the monster phase
\* result mon on it
PlayerDefendsOf(ents, mon) ==
    /\ mon.fault = "none"
    /\ \A a \in 1 .. Len(mon.attacks) :
          /\ mon.attacks[a][2] = 1
          /\ is_player(ents[1].typ)
          /\ is_monster(ents[mon.attacks[a][1]].typ)
    /\ Len(mon.entities) = Len(ents)
    /\ \A i \in 1 .. Len(ents) : mon.entities[i].typ.k = ents[i].typ.k
    /\ \A i \in Monsters(ents) : mon.entities[i].typ = ents[i].typ
    /\ DeadMonsterIndices(mon.entities) = <<>>
    /\ \A rnd \in [1 .. BumpDraws(mon.entities) -> Offsets] :
          LET tr == resolve_traps(mon.entities, map, rnd)
          IN  \A j \in Monsters(tr.entities) :
                  MonsterHpBy(mon.entities, tr.entities[j])

\* C40: every recorded attack has the player as its defender, so monsters
\* lose HP only through Kill and Countdown(0) traps and the dead-monster
\* removal loop inside the monster pass never removes an entity.
PlayerDefends ==
    InPlay =>
        \A keys \in SUBSET Keys :
            LET p == update_player(entities, keys, map)
            IN  p.took_turn =>
                    PlayerDefendsOf(p.entities,
                                    MonsterPhase(entities, map, keys))

\* both monsters attacked in the latest turn and both are in the store
\* with all their hit points
PlayerDefendsWitness ==
    /\ fault = "none" /\ last.op = "playing" /\ last.took_turn
    /\ last.attacks = 2
    /\ Cardinality(Monsters(entities)) = 2
    /\ \A i \in Monsters(entities) :
          entities[i].typ.hp = entities[i].typ.max_hp

====
